---- MODULE Spec2Model ----
(***************************************************************************)
(* goinject: the scoped resolution engine.                                 *)
(*                                                                         *)
(* The model follows the goroutines that use one Injector: the goroutine   *)
(* that builds it (NewInjector, from the eager creation of the singletons  *)
(* on) and the goroutines that call Invoke, Injector.Shutdown,             *)
(* WithContextualScopeEnabled and ShutdownContextualScope afterwards.      *)
(* instanceRegistry.resolveBinding and instanceRegistry.shutdown are       *)
(* followed lock operation by lock operation; each goroutine has a call    *)
(* stack, because a provider's arguments are resolved by re-entering the   *)
(* injector.                                                               *)
(*                                                                         *)
(* The actions are those of the code; the specifications differ in what    *)
(* the callers do with the injector:                                       *)
(*   Spec            one goroutine: any nesting of scopes, the singleton   *)
(*                   and the contextual types, Injector.Shutdown;          *)
(*   SpecConcurrent  three goroutines in request scopes;                   *)
(*   SpecPerLookUp   three goroutines asking for the PerLookUp type;       *)
(*   SpecNested      one goroutine, request scopes within one session;     *)
(*   SpecRequests    one goroutine and an injector with several bindings   *)
(*                   for a type and annotated bindings: single values,     *)
(*                   collections, optional fields, lazy providers;         *)
(*   SpecProviders   one goroutine calling lazy providers in the contexts  *)
(*                   of request scopes;                                    *)
(*   SpecIndependent goroutines asking for two bindings of one request     *)
(*                   scope, one of whose providers may never return;       *)
(*   SpecModules     NewInjector from its first option on, with modules    *)
(*                   and options that fail to apply;                       *)
(*   SpecCycles      injectors whose bindings depend on each other in a    *)
(*                   cycle;                                                *)
(*   SpecTeardown    goroutines that use one request scope and shut it     *)
(*                   down at any time, with a destroy method that calls    *)
(*                   the injector;                                         *)
(*   SpecPanics      goroutines that recover from a provider's panic;      *)
(*   SpecEager       injectors with a singleton made from a request-scoped *)
(*                   type, scopes entered before NewInjector returns.      *)
(***************************************************************************)
EXTENDS Integers, Sequences, FiniteSets, TLC

\* ---------------------------------------------------------------- bounds

\* Contextual scopes the one caller of Spec enters.
MaxRegistries == 2

\* Request scopes the one caller of SpecNested enters within its session.
MaxNested == 2

\* Invokes that ask for a PerLookUp type.
MaxLookUps == 3

\* Request scopes the concurrent callers of SpecConcurrent enter.
MaxRequests == 1

\* Calls a goroutine's stack has room for: the call that would make it deeper
\* ends the goroutine (the runtime's stack limit).
MaxDepth == 8

\* ------------------------------------------------------------ the input

Threads == {"g1", "g2", "g3"}

\* The goroutine that calls NewInjector.
Main == "g1"

NoThread == "none"

\* Scope names (src/unnamed/part_000:92,119; the tests' "request", "session").
PerLookUp == "inject.PerLookUp"

Singleton == "inject.Singleton"

RequestScope == "request"

SessionScope == "session"

\* Context keys of the contextual scopes (requestScopeKeyVal, sessionScopeKeyVal).
Keys == {"requestKey", "sessionKey"}

\* The options given to NewInjector: the scopes registered by RegisterScope
\* and the bindings made by Provide.  A binding is named by the type its
\* provider returns; typeof is the type it is registered for (As), annotatedWith
\* its annotation (Named), deps are the types of its provider's arguments.
RegisteredScopes ==
    [s \in {RequestScope, SessionScope} |->
        [kind |-> "contextual",
         key  |-> IF s = RequestScope THEN "requestKey" ELSE "sessionKey"]]

Provide(typeof, annotatedWith, scope, destroy, fallible, deps) ==
    [typeof |-> typeof, annotatedWith |-> annotatedWith, scope |-> scope,
     destroy |-> destroy, fallible |-> fallible, deps |-> deps]

Provided ==
    [b \in {"parent", "child", "grandChild", "perLookUp", "session", "request",
            "rectangle", "square", "red", "blue", "parentInSub", "parentInSub2",
            "header", "ping", "pong", "yin", "yang", "handler", "closer", "gateway"} |->
        CASE b = "parent"     -> Provide(b, "", Singleton,    TRUE,  FALSE, <<>>)
          [] b = "child"      -> Provide(b, "", Singleton,    TRUE,  TRUE,  <<"parent">>)
          [] b = "grandChild" -> Provide(b, "", Singleton,    TRUE,  FALSE, <<"child">>)
          [] b = "perLookUp"  -> Provide(b, "", PerLookUp,    TRUE,  TRUE,  <<>>)
          [] b = "session"    -> Provide(b, "", SessionScope, TRUE,  TRUE,  <<>>)
          [] b = "request"    -> Provide(b, "", RequestScope, TRUE,  TRUE,  <<>>)
          [] b = "rectangle"  -> Provide("shape", "",     Singleton, FALSE, FALSE, <<>>)
          [] b = "square"     -> Provide("shape", "",     PerLookUp, FALSE, TRUE,  <<>>)
          [] b = "red"        -> Provide("color", "red",  Singleton, FALSE, FALSE, <<>>)
          [] b = "blue"       -> Provide("color", "blue", Singleton, FALSE, FALSE, <<>>)
          [] b \in {"parentInSub", "parentInSub2"}
                              -> Provide("parent", "parent-in-sub", Singleton, FALSE, FALSE, <<>>)
          [] b = "header"     -> Provide(b, "", RequestScope, FALSE, FALSE, <<"parent">>)
          [] b = "ping"       -> Provide(b, "", PerLookUp,    FALSE, FALSE, <<"pong">>)
          [] b = "pong"       -> Provide(b, "", PerLookUp,    FALSE, FALSE, <<"ping">>)
          [] b = "yin"        -> Provide(b, "", Singleton,    FALSE, FALSE, <<"yang">>)
          [] b = "yang"       -> Provide(b, "", PerLookUp,    FALSE, FALSE, <<"yin">>)
          [] b = "handler"    -> Provide(b, "", RequestScope, TRUE,  FALSE, <<"request">>)
          [] b = "closer"     -> Provide(b, "", RequestScope, TRUE,  FALSE, <<>>)
          [] b = "gateway"    -> Provide(b, "", Singleton,    FALSE, FALSE, <<"request">>)]

\* The type a binding's destroy method asks the injector for, in the context
\* of its scope ("" for a destroy method that does not use the injector).
DestroyAsks(b) == IF b = "closer" THEN "request" ELSE ""

\* The binding NewInjector adds for *Injector itself.
injectorBinding == Provide("injector", "", Singleton, FALSE, FALSE, <<>>)

Bindings == DOMAIN Provided \cup {"injector"}

Binding(b) == IF b = "injector" THEN injectorBinding ELSE Provided[b]

\* The Provide options of the injector of Spec, SpecConcurrent, SpecPerLookUp
\* and SpecNested, in the order they are given to NewInjector.
Options == <<"parent", "child", "grandChild", "perLookUp", "session", "request">>

\* The Provide options of the injector of SpecIndependent: two request-scoped
\* bindings that do not depend on each other, the header made from the
\* singleton parent.
IndependentOptions == <<"parent", "request", "header">>

\* The Provide options of the injectors of SpecCycles: two PerLookUp bindings
\* whose providers take each other, or a singleton whose provider takes a
\* PerLookUp binding whose provider takes the singleton.
CycleOptions == {<<"ping", "pong">>, <<"yin", "yang">>}

\* The Provide options of the injectors of SpecEager: a singleton gateway made
\* from the request-scoped type, alone or next to the parent, and an injector
\* without the gateway.
EagerOptions ==
    {<<"request", "gateway">>, <<"parent", "request", "gateway">>,
     <<"parent", "request">>}

\* The Provide options of the injector of SpecTeardown: three request-scoped
\* bindings with destroy methods, the handler made from the request, the
\* closer's destroy method asking for the request.
TeardownOptions == <<"request", "handler", "closer">>

\* The Provide options of the injector of SpecRequests: two bindings for the
\* interface type shape, two annotated bindings for the type color and none
\* without annotation.
RequestOptions == <<"parent", "child", "rectangle", "square", "red", "blue">>

\* An option as NewInjector takes it: Provide(constructor), named by the binding
\* its constructor is for ("nil" for Provide(nil)), or Module(name, opts...).
provideOption(constructor) ==
    [kind |-> "Provide", name |-> constructor, options |-> <<>>]

Module(name, opts) == [kind |-> "Module", name |-> name, options |-> opts]

\* The module of TestInstallModuleShouldInstallBindingsOnce, installed by two
\* parent modules.
subModule == Module("sub", <<provideOption("parentInSub")>>)

\* The option lists given to NewInjector in SpecModules: the module installed
\* twice; modules without a fault; a nil provider as the last option, within a
\* module after a good option, and as the first option.
Configurations ==
    {<<Module("parent-a", <<subModule>>), Module("parent-b", <<subModule>>)>>,
     <<Module("family", <<provideOption("parent"), provideOption("child")>>),
       provideOption("grandChild")>>,
     <<provideOption("parent"), provideOption("child"), provideOption("nil")>>,
     <<provideOption("parent"),
       Module("test.Module", <<provideOption("child"), provideOption("nil"),
                               provideOption("grandChild")>>)>>,
     <<provideOption("nil"), provideOption("parent")>>}

\* A slice type and its element type (reflect.Type.Kind, reflect.Type.Elem).
IsSlice(ty) == ty \in {"[]shape", "[]color"}

Elem(ty) == IF ty = "[]shape" THEN "shape" ELSE "color"

\* Provider[T], a func(InvocationContext) (T, error), and its T
\* (injector.go:245-249, 256; part_002:290).
isProviderType(ty) ==
    ty \in {"Provider[child]", "Provider[color]", "Provider[perLookUp]",
            "Provider[request]"}

Out(ty) ==
    CASE ty = "Provider[child]"     -> "child"
      [] ty = "Provider[perLookUp]" -> "perLookUp"
      [] ty = "Provider[request]"   -> "request"
      [] OTHER                      -> "color"

invocationContextReflectType == "InvocationContext"

\* The types the one caller of Spec asks Invoke for.
Requested == {"child", "session", "request"}

\* ------------------------------------------------------ values and errors

\* A provided value is <<binding, n>>: the n-th value its provider made.
Invalid == <<"invalid", 0>>

\* What a failing provider returns beside its error (a nil pointer).
Nil == <<"nil", 0>>

Missing == <<"missing", 0>>

\* The slice made for a collection request, its elements apart
\* (reflect.MakeSlice); the function made for a Provider[T] (reflect.MakeFunc);
\* the context as a value (reflect.ValueOf(ctx)).
MadeSlice == <<"slice", 0>>

MadeFunc == <<"func", 0>>

ValueOfCtx == <<"ctx", 0>>

\* An error is its chain of wrappers, the cause last; nil is the empty chain.
NoErr == <<>>

Wrap(tag, b, err) == <<<<tag, b>>>> \o err

Cause(err) == err[Len(err)]

contextScopedNotActiveError == <<<<"Scope is not active", "">>>>

IsScopeNotActive(err) == err # NoErr /\ Cause(err)[1] = "Scope is not active"

providerError(b) == <<<<"provider error", b>>>>

\* errors.go:20-36  the error of a failed resolution of a type, around its cause
newInjectionError(ty, cause) == Wrap("Got error while resolving type", ty, cause)

\* fmt.Errorf of a message without a cause, about a type
Errorf(message, ty) == <<<<message, ty>>>>

\* errors.go:56-68  a configuration error with its message, about a provider
\* or a module, around its cause
newInjectorConfigurationError(message, name, cause) == Wrap(message, name, cause)

\* ---------------------------------------------------------------- contexts

\* A context.Context is the chain of the values put on it, oldest first;
\* the keys of the model carry registries only.
NoReg == -1

Background == [isNil |-> FALSE, vals |-> <<>>]

NilCtx == [isNil |-> TRUE, vals |-> <<>>]

\* Variant of ctxValue that looks at the newest value only, as a context that
\* did not delegate to its parent would.
ctxValue_Shallow(vals, key) ==
    IF vals # <<>> /\ vals[Len(vals)][1] = key THEN vals[Len(vals)][2] ELSE NoReg

\* context.Context.Value: the newest value under the key, found by walking up
\* the chain of parents.
RECURSIVE ctxValue(_, _)
ctxValue(vals, key) ==
    IF vals = <<>> THEN NoReg
    ELSE LET last == vals[Len(vals)] IN
         IF last[1] = key THEN last[2]
         ELSE ctxValue(SubSeq(vals, 1, Len(vals) - 1), key)

WithValue(ctx, key, reg) == [ctx EXCEPT !.vals = Append(@, <<key, reg>>)]

\* ------------------------------------------------------------------ state

\* Registry 0 is the singleton scope's; the others are contextual.
SingletonRegistry == 0

Regs == 0..(CHOOSE n \in {MaxRegistries, 1 + MaxNested, MaxRequests} :
                \A m \in {MaxRegistries, 1 + MaxNested, MaxRequests} : m <= n)

VARIABLES
    options,             \* NewInjector: the options it has still to apply
    mod,                 \* configuration.bindings: the bindings the options made
    bindings,            \* Injector.bindings: the bindings in the table
    scopes,              \* Injector.scopes: the scope names in the table
    phase,               \* NewInjector: "config", "eager", "ready" or "failed"
    eagerTodo,           \* singleton bindings eagerlyCreateSingletons has yet to visit
    nregs,               \* contextual registries created so far
    ctxs,                \* the contexts the callers hold
    mu,                  \* instanceRegistry.mu: its holder, per registry
    instanceLock,        \* instanceRegistry.instanceLock: the bindings with a lock
    wlocked,             \* <<registry, binding, goroutine>>: write-held RWMutexes
    instances,           \* instanceRegistry.instances
    destroyMethodsLock,  \* instanceRegistry.destroyMethodsLock: its holder
    destroyMethods,      \* instanceRegistry.destroyMethods: the values to destroy
    stack,               \* each goroutine's call stack
    lookups,             \* requests issued for a PerLookUp type
    count,               \* calls of each binding's provider (the providers' own counters)
    ctorCalls,           \* history: calls of instanceCreator per registry and binding
    ctorErr,             \* history: the error instanceCreator returned, per registry and binding
    served,              \* history: the values perLookUpScope.ResolveBinding returned, in order
    destroyed            \* history: the values the destroy methods were called with

vars == <<options, mod, bindings, scopes, phase, eagerTodo, nregs, ctxs, mu, instanceLock,
          wlocked, instances, destroyMethodsLock, destroyMethods,
          stack, lookups, count, ctorCalls, ctorErr, served, destroyed>>

registryVars == <<mu, instanceLock, wlocked, instances,
                  destroyMethodsLock, destroyMethods>>

injectorVars == <<options, mod, bindings, scopes, phase, eagerTodo>>

historyVars == <<ctorCalls, ctorErr, served, destroyed>>

\* -------------------------------------------------------------- the stack

\* A frame: the operation and the place in it, its context, the type asked for
\* or the binding resolved (b), the annotation and the optional mark of the
\* request, whether the request is a field of a Params struct, the registry,
\* the provider's next argument, the value, the collection made so far and the
\* bindings it still lacks, the error, and shutdown's index and calls.
Frame(op, pc, ctx, b, reg) ==
    [op |-> op, pc |-> pc, ctx |-> ctx, b |-> b, reg |-> reg,
     annotation |-> "", optional |-> FALSE, params |-> FALSE,
     argi |-> 1, val |-> Invalid, coll |-> <<>>, todo |-> <<>>,
     err |-> NoErr, i |-> 0, log |-> <<>>]

Top(t) == stack[t][Len(stack[t])]

Idle(t) == stack[t] = <<>>

At(t, op, pc) == ~Idle(t) /\ Top(t).op = op /\ Top(t).pc = pc

SetTop(t, f) == [stack EXCEPT ![t][Len(stack[t])] = f]

Push(t, f) == [stack EXCEPT ![t] = Append(@, f)]

Pop(t) == [stack EXCEPT ![t] = SubSeq(@, 1, Len(@) - 1)]

\* ------------------------------------------------------------------- Init

\* The orders in which a range over the map mod.bindings can visit the
\* bindings of the options: all of them.
Orders(provided) ==
    {ord \in [1..Len(provided) -> {provided[k] : k \in 1..Len(provided)}] :
        \A i, j \in 1..Len(provided) : i # j => ord[i] # ord[j]}

\* The place of a binding in the table: its type and its annotation.
TableKey(b) == <<Binding(b).typeof, Binding(b).annotatedWith>>

\* injector.go:52-62  injector.bindings, built by appending the bindings to the
\* list of their type and annotation in the order the map is visited, and the
\* binding of *Injector.
Table(ord) ==
    LET keys == {TableKey(ord[k]) : k \in 1..Len(ord)}
    IN  [key \in keys \cup {TableKey("injector")} |->
            IF key = TableKey("injector") THEN <<"injector">>
            ELSE SelectSeq(ord, LAMBDA b : TableKey(b) = key)]

\* NewInjector(options...) up to its call of eagerlyCreateSingletons
\* (injector.go:21-63), for options that are Provide options, given by the
\* names of their bindings: the options are applied, the tables are built and
\* the singleton registry is new.
NewInjectorWith(provided) ==
    /\ options = <<>>
    /\ mod = {provided[k] : k \in 1..Len(provided)}
    /\ \E ord \in Orders(provided) : bindings = Table(ord)
    /\ scopes = {Singleton, PerLookUp} \cup DOMAIN RegisteredScopes
    /\ phase = "eager"
    /\ eagerTodo = {b \in mod \cup {"injector"} : Binding(b).scope = Singleton}
    /\ nregs = 0
    /\ ctxs = {Background}
    /\ mu = [r \in Regs |-> NoThread]
    /\ instanceLock = [r \in Regs |-> {}]
    /\ wlocked = {}
    /\ instances = [r \in Regs |-> [b \in Bindings |-> Missing]]
    /\ destroyMethodsLock = [r \in Regs |-> NoThread]
    /\ destroyMethods = [r \in Regs |-> <<>>]
    /\ stack = [t \in Threads |->
                    IF t = Main
                    THEN <<Frame("eagerlyCreateSingletons", "L109", NilCtx, "", NoReg)>>
                    ELSE <<>>]
    /\ lookups = 0
    /\ count = [b \in Bindings |-> 0]
    /\ ctorCalls = [r \in Regs |-> [b \in Bindings |-> 0]]
    /\ ctorErr = [r \in Regs |-> [b \in Bindings |-> NoErr]]
    /\ served = <<>>
    /\ destroyed = [r \in Regs |-> <<>>]

Init == NewInjectorWith(Options)

\* NewInjector(options...) at its loop over the options (injector.go:21-27):
\* mod is empty and there is no injector yet.
NewInjectorAt(given) ==
    /\ options = given
    /\ mod = {}
    /\ bindings = <<>>
    /\ scopes = {}
    /\ phase = "config"
    /\ eagerTodo = {}
    /\ nregs = 0
    /\ ctxs = {Background}
    /\ mu = [r \in Regs |-> NoThread]
    /\ instanceLock = [r \in Regs |-> {}]
    /\ wlocked = {}
    /\ instances = [r \in Regs |-> [b \in Bindings |-> Missing]]
    /\ destroyMethodsLock = [r \in Regs |-> NoThread]
    /\ destroyMethods = [r \in Regs |-> <<>>]
    /\ stack = [t \in Threads |->
                    IF t = Main
                    THEN <<Frame("NewInjector", "L27", NilCtx, "", NoReg)>>
                    ELSE <<>>]
    /\ lookups = 0
    /\ count = [b \in Bindings |-> 0]
    /\ ctorCalls = [r \in Regs |-> [b \in Bindings |-> 0]]
    /\ ctorErr = [r \in Regs |-> [b \in Bindings |-> NoErr]]
    /\ served = <<>>
    /\ destroyed = [r \in Regs |-> <<>>]

InitModules == \E given \in Configurations : NewInjectorAt(given)

InitRequests == NewInjectorWith(RequestOptions)

InitIndependent == NewInjectorWith(IndependentOptions)

InitTeardown == NewInjectorWith(TeardownOptions)

InitEager == \E provided \in EagerOptions : NewInjectorWith(provided)

InitCycles == \E provided \in CycleOptions : NewInjectorWith(provided)

\* ----------------------------------------------------------------- scopes

\* Variant of ScopeTable in which the PerLookUp name is bound to a caching scope.
ScopeTable_PerLookUpCached(name) ==
    CASE name \in {Singleton, PerLookUp} -> [kind |-> "singleton", key |-> ""]
      [] OTHER                           -> RegisteredScopes[name]

\* mod.scopes after NewInjector added the two built-in scopes.
ScopeTable(name) ==
    CASE name = Singleton -> [kind |-> "singleton", key |-> ""]
      [] name = PerLookUp -> [kind |-> "perLookUp", key |-> ""]
      [] OTHER            -> RegisteredScopes[name]

\* ctx.Value(s.key).(*instanceRegistry) of a contextual scope.
scopeHolder(ctx, key) == ctxValue(ctx.vals, key)

\* Variant of ScopeRegistry that falls back to the singleton registry when the
\* context carries none.
ScopeRegistry_Fallback(scope, ctx) ==
    CASE scope.kind = "perLookUp" -> NoReg
      [] scope.kind = "singleton" -> SingletonRegistry
      [] OTHER -> IF ctx.isNil \/ scopeHolder(ctx, scope.key) = NoReg
                  THEN SingletonRegistry
                  ELSE scopeHolder(ctx, scope.key)

\* Variant of ScopeRegistry in which the PerLookUp scope registers the destroy
\* callbacks with the singleton registry.
ScopeRegistry_PerLookUpRegisters(scope, ctx) ==
    CASE scope.kind \in {"singleton", "perLookUp"} -> SingletonRegistry
      [] OTHER -> IF ctx.isNil THEN NoReg ELSE scopeHolder(ctx, scope.key)

\* The registry in which a scope resolves and registers destroy callbacks.
ScopeRegistry(scope, ctx) ==
    CASE scope.kind = "singleton" -> SingletonRegistry
      [] scope.kind = "perLookUp" -> NoReg
      [] OTHER -> IF ctx.isNil THEN NoReg ELSE scopeHolder(ctx, scope.key)

\* ---------------------------------------------------------------- returns

\* Invoke's wrapping of a failed argument resolution (injector.go:95-98,133).
InvokeErr(err) ==
    IF err = NoErr THEN NoErr
    ELSE Wrap("failed to call invokation function", "",
              Wrap("failed to resolve function argument", "", err))

\* Variant of setParamFields that requires a valid instance for every field.
setParamFields_Required(parent, val, err) ==
    IF err # NoErr
    THEN newInjectionError(parent.b, err)
    ELSE IF val # Invalid
    THEN NoErr
    ELSE newInjectionError(parent.b,
                           Errorf("cannot get valid instance from scope", parent.b))

\* setParamFields (injector.go:182-192), for the one tagged field of a Params
\* struct: the error of the field's resolution, wrapped; the field is set to a
\* valid instance and left unset when there is none and it is optional; no
\* valid instance for a field that is not optional is an error.
setParamFields(parent, val, err) ==
    IF err # NoErr
    THEN newInjectionError(parent.b, err)
    ELSE IF val # Invalid \/ parent.optional
    THEN NoErr
    ELSE newInjectionError(parent.b,
                           Errorf("cannot get valid instance from scope", parent.b))

\* What the caller of getScopedInstanceFromBinding or getInstanceOfAnnotatedType
\* does with (val, err):
\*  - callFunctionWithArgumentInstance, for a provider, has one more argument, or
\*    binding.create fails on its error (injector.go:131-135, binding.go:20-24);
\*  - Invoke has (val, err), calls the function with val or returns the error
\*    (injector.go:95-98), after setParamFields when val is for a field of the
\*    function's Params argument (injector.go:141-147, 150-158);
\*  - the loop over the bindings of a collection appends val or returns the
\*    error (injector.go:209-213);
\*  - the function made for a Provider[T] returns val, or the zero value of T,
\*    and the error (injector.go:259-275);
\*  - eagerlyCreateSingletons goes on, or returns the error (injector.go:113-116).
Deliver(parent, val, err) ==
    CASE parent.op = "resolve" ->
            IF err = NoErr
            THEN [parent EXCEPT !.argi = @ + 1]
            ELSE [parent EXCEPT
                    !.val = Invalid,
                    !.err = Wrap("failed to call provider function", parent.b,
                                 Wrap("failed to resolve function argument", parent.b, err)),
                    !.pc = "L304"]
      [] parent.op = "Invoke" ->
            [parent EXCEPT !.val = val,
                           !.err = InvokeErr(IF parent.params
                                             THEN setParamFields(parent, val, err)
                                             ELSE err),
                           !.pc = "L137"]
      [] parent.op = "slice" ->
            IF err = NoErr
            THEN [parent EXCEPT !.coll = Append(@, val)]
            ELSE [parent EXCEPT !.err = err, !.pc = "L211"]
      [] parent.op = "Provider" ->
            [parent EXCEPT !.val = IF val # Invalid THEN val ELSE Nil,
                           !.err = err,
                           !.pc = "L273"]
      [] OTHER ->
            IF err = NoErr THEN parent
            ELSE [parent EXCEPT !.err = Wrap("failed to get singleton instance", "", err),
                                !.pc = "L115"]

\* The top resolution of goroutine t returns (val, err) to its caller.
Return(t, val, err) ==
    stack' = [stack EXCEPT ![t] =
                Append(SubSeq(@, 1, Len(@) - 2), Deliver(@[Len(@) - 1], val, err))]

\* ------------------------------------------------------------ NewInjector

\* part_002:64  b := &binding{}: a new binding, for every application of a
\* Provide option; the second one made for the constructor in the module sub
\* is parentInSub2.
newBinding(constructor, made) ==
    IF constructor = "parentInSub" /\ "parentInSub" \in made
    THEN "parentInSub2"
    ELSE constructor

\* provideOption.apply (part_002:49-82): the configuration error of a nil
\* constructor, or a new binding in mod.bindings.
provideOption_apply(o, made) ==
    IF o.name = "nil"
    THEN [bindings |-> made,
          err |-> newInjectorConfigurationError("cannot accept nil provider", "", NoErr)]
    ELSE [bindings |-> made \cup {newBinding(o.name, made)}, err |-> NoErr]

\* Option.apply (part_002:14-16) and moduleOption.apply (part_002:23-32): the
\* options of a module are applied in their order up to the first that fails,
\* whose error is wrapped with the module's name.
RECURSIVE apply(_, _)
RECURSIVE moduleOption_apply(_, _, _)
apply(o, made) ==
    IF o.kind = "Provide"
    THEN provideOption_apply(o, made)
    ELSE moduleOption_apply(o.name, o.options, made)

moduleOption_apply(name, opts, made) ==
    IF opts = <<>>
    THEN [bindings |-> made, err |-> NoErr]
    ELSE LET applied == apply(Head(opts), made)
         IN  IF applied.err # NoErr
             THEN [bindings |-> applied.bindings,
                   err |-> newInjectorConfigurationError(
                               "error while installing module", name, applied.err)]
             ELSE moduleOption_apply(name, Tail(opts), applied.bindings)

\* Variant of NewInjector_L28 that goes on with the next option when one fails.
NewInjector_L28_SkipsFailing ==
    /\ At(Main, "NewInjector", "L27")
    /\ options # <<>>
    /\ mod' = apply(Head(options), mod).bindings
    /\ options' = Tail(options)
    /\ UNCHANGED <<bindings, scopes, phase, eagerTodo, nregs, ctxs, registryVars,
                   stack, lookups, count, historyVars>>

\* injector.go:27-29  the loop over the options: the next one is applied to mod
NewInjector_L28 ==
    /\ At(Main, "NewInjector", "L27")
    /\ options # <<>>
    /\ LET applied == apply(Head(options), mod)
       IN  /\ mod' = applied.bindings
           /\ options' = Tail(options)
           /\ stack' = SetTop(Main,
                            IF applied.err = NoErr
                            THEN Top(Main)
                            ELSE [Top(Main) EXCEPT !.err = applied.err, !.pc = "L30"])
    /\ UNCHANGED <<bindings, scopes, phase, eagerTodo, nregs, ctxs, registryVars,
                   lookups, count, historyVars>>

\* injector.go:29-31  an option failed: return nil, err
NewInjector_L30 ==
    /\ At(Main, "NewInjector", "L30")
    /\ phase' = "failed"
    /\ stack' = Pop(Main)
    /\ UNCHANGED <<options, mod, bindings, scopes, eagerTodo, nregs, ctxs,
                   registryVars, lookups, count, historyVars>>

\* The orders in which a range over the map mod.bindings can visit it.
Visits(made) ==
    {ord \in [1..Cardinality(made) -> made] :
        \A i, j \in 1..Cardinality(made) : i # j => ord[i] # ord[j]}

\* injector.go:34-64  every option is applied: the scopes and the bindings of
\* mod are put in the injector's tables with the binding of *Injector, and
\* eagerlyCreateSingletons is called.
NewInjector_L34 ==
    /\ At(Main, "NewInjector", "L27")
    /\ options = <<>>
    /\ \E ord \in Visits(mod) : bindings' = Table(ord)
    /\ scopes' = {Singleton, PerLookUp} \cup DOMAIN RegisteredScopes
    /\ eagerTodo' = {b \in mod \cup {"injector"} : Binding(b).scope = Singleton}
    /\ phase' = "eager"
    /\ stack' = SetTop(Main, Frame("eagerlyCreateSingletons", "L109", NilCtx, "", NoReg))
    /\ UNCHANGED <<options, mod, nregs, ctxs, registryVars, lookups, count,
                   historyVars>>

\* Variant of eagerlyCreateSingletons that resolves one singleton binding and
\* leaves the others to their first use.
eagerlyCreateSingletons_First ==
    /\ At(Main, "eagerlyCreateSingletons", "L109")
    /\ \E b \in eagerTodo :
        /\ eagerTodo' = {}
        /\ stack' = Push(Main, Frame("resolve", "scope", NilCtx, b, NoReg))
    /\ UNCHANGED <<options, mod, bindings, scopes, phase, nregs, ctxs, registryVars, lookups,
                   count, historyVars>>

\* Variant of eagerlyCreateSingletons that resolves the singletons in a
\* context the caller has.
eagerlyCreateSingletons_InContext ==
    /\ At(Main, "eagerlyCreateSingletons", "L109")
    /\ \E b \in eagerTodo : \E ctx \in ctxs :
        /\ eagerTodo' = eagerTodo \ {b}
        /\ stack' = Push(Main, Frame("resolve", "scope", ctx, b, NoReg))
    /\ UNCHANGED <<options, mod, bindings, scopes, phase, nregs, ctxs, registryVars, lookups,
                   count, historyVars>>

\* eagerlyCreateSingletons (injector.go:108-113): the next singleton binding of
\* the table, in the map's iteration order, is resolved with a nil context.
eagerlyCreateSingletons ==
    /\ At(Main, "eagerlyCreateSingletons", "L109")
    /\ \E b \in eagerTodo :
        /\ eagerTodo' = eagerTodo \ {b}
        /\ stack' = Push(Main, Frame("resolve", "scope", NilCtx, b, NoReg))
    /\ UNCHANGED <<options, mod, bindings, scopes, phase, nregs, ctxs, registryVars, lookups,
                   count, historyVars>>

\* Variant of NewInjector that returns the injector whatever the eager creation
\* returned.
NewInjector_IgnoresError ==
    /\ \/ At(Main, "eagerlyCreateSingletons", "L115")
       \/ At(Main, "eagerlyCreateSingletons", "L109") /\ eagerTodo = {}
    /\ phase' = "ready"
    /\ stack' = Pop(Main)
    /\ UNCHANGED <<options, mod, bindings, scopes, eagerTodo, nregs, ctxs, registryVars,
                   lookups, count, historyVars>>

\* Variant of NewInjector that shuts the singleton registry down before it
\* returns the error of the eager creation.
NewInjector_ShutsDown ==
    /\ \/ /\ At(Main, "eagerlyCreateSingletons", "L115")
          /\ phase' = "failed"
          /\ destroyed' = [destroyed EXCEPT ![SingletonRegistry] =
                [k \in 1..Len(destroyMethods[SingletonRegistry]) |->
                    destroyMethods[SingletonRegistry]
                        [Len(destroyMethods[SingletonRegistry]) - k + 1]]]
          /\ destroyMethods' = [destroyMethods EXCEPT ![SingletonRegistry] = <<>>]
       \/ /\ At(Main, "eagerlyCreateSingletons", "L109")
          /\ eagerTodo = {}
          /\ phase' = "ready"
          /\ UNCHANGED <<destroyed, destroyMethods>>
    /\ stack' = Pop(Main)
    /\ UNCHANGED <<options, mod, bindings, scopes, eagerTodo, nregs, ctxs, mu,
                   instanceLock, wlocked, instances, destroyMethodsLock,
                   lookups, count, ctorCalls, ctorErr, served>>

\* NewInjector returns (injector.go:64-68): the error of a singleton's
\* resolution and no injector, or the injector.
NewInjector ==
    /\ \/ /\ At(Main, "eagerlyCreateSingletons", "L115")
          /\ phase' = "failed"
       \/ /\ At(Main, "eagerlyCreateSingletons", "L109")
          /\ eagerTodo = {}
          /\ phase' = "ready"
    /\ stack' = Pop(Main)
    /\ UNCHANGED <<options, mod, bindings, scopes, eagerTodo, nregs, ctxs, registryVars,
                   lookups, count, historyVars>>

\* ------------------------------------------------------------- resolution

\* findBindingsForAnnotatedType (injector.go:279-291): the bindings the table
\* has for the type and the annotation, in the order of its list.
findBindingsForAnnotatedType(ty, annotation) ==
    IF <<ty, annotation>> \in DOMAIN bindings
    THEN bindings[<<ty, annotation>>]
    ELSE <<>>

\* The caller's frame with a collection for its value.
DeliverSlice(parent, coll, err) ==
    [Deliver(parent, MadeSlice, err) EXCEPT !.coll = coll]

\* Variant of getInstanceOfAnnotatedType that resolves the first binding found
\* when a single value is asked of a type with several bindings.
getInstanceOfAnnotatedType_First(caller, ctx, ty, annotation, optional) ==
    IF IsSlice(ty)
    THEN LET found == findBindingsForAnnotatedType(Elem(ty), annotation)
         IN  IF Len(found) > 0
             THEN <<caller, [Frame("slice", "L209", ctx, ty, NoReg) EXCEPT !.todo = found]>>
             ELSE IF optional
             THEN <<DeliverSlice(caller, <<>>, NoErr)>>
             ELSE <<DeliverSlice(caller, <<>>,
                        newInjectionError(Elem(ty),
                            Errorf("did not found binding, expected at least one", Elem(ty))))>>
    ELSE LET found == findBindingsForAnnotatedType(ty, annotation)
         IN  IF Len(found) >= 1
             THEN <<caller, Frame("resolve", "scope", ctx, found[1], NoReg)>>
             ELSE IF isProviderType(ty)
             THEN <<Deliver(caller, MadeFunc, NoErr)>>
             ELSE IF ty = invocationContextReflectType
             THEN <<Deliver(caller, ValueOfCtx, NoErr)>>
             ELSE IF optional
             THEN <<Deliver(caller, Invalid, NoErr)>>
             ELSE <<Deliver(caller, Invalid,
                        newInjectionError(ty,
                            Errorf("did not found binding, expected one", ty)))>>

\* getInstanceOfAnnotatedType (injector.go:199-243): the frames the caller's
\* frame is replaced by.  A collection with bindings is made in a frame of its
\* own, a binding is resolved in a frame of its own, and everything else is
\* the caller's frame with the result.
getInstanceOfAnnotatedType(caller, ctx, ty, annotation, optional) ==
    IF IsSlice(ty)
    THEN LET found == findBindingsForAnnotatedType(Elem(ty), annotation)
         IN  IF Len(found) > 0
             THEN <<caller, [Frame("slice", "L209", ctx, ty, NoReg) EXCEPT !.todo = found]>>
             ELSE IF optional
             THEN <<DeliverSlice(caller, <<>>, NoErr)>>
             ELSE <<DeliverSlice(caller, <<>>,
                        newInjectionError(Elem(ty),
                            Errorf("did not found binding, expected at least one", Elem(ty))))>>
    ELSE LET found == findBindingsForAnnotatedType(ty, annotation)
         IN  IF Len(found) > 1
             THEN <<Deliver(caller, Invalid,
                        newInjectionError(ty,
                            Errorf("found multiple bindings expected one", ty)))>>
             ELSE IF Len(found) = 1
             THEN <<caller, Frame("resolve", "scope", ctx, found[1], NoReg)>>
             ELSE IF isProviderType(ty)
             THEN <<Deliver(caller, MadeFunc, NoErr)>>
             ELSE IF ty = invocationContextReflectType
             THEN <<Deliver(caller, ValueOfCtx, NoErr)>>
             ELSE IF optional
             THEN <<Deliver(caller, Invalid, NoErr)>>
             ELSE <<Deliver(caller, Invalid,
                        newInjectionError(ty,
                            Errorf("did not found binding, expected one", ty)))>>

\* Whether a request reaches a provider that is called at every resolution.
UsesPerLookUp(ty, annotation) ==
    LET found == findBindingsForAnnotatedType(IF IsSlice(ty) THEN Elem(ty) ELSE ty,
                                              annotation)
    IN  \E k \in 1..Len(found) : Binding(found[k]).scope = PerLookUp

\* Invoke(ctx, function) for a function of one argument (injector.go:80-95,
\* 124-147): the argument is of type ty and resolved without annotation, or it
\* is a struct that embeds Params and has one field of type ty, tagged with
\* the annotation and the optional mark, which is resolved (injector.go:150-192).
InvokeWith(t, ctx, ty, annotation, optional, params) ==
    /\ phase = "ready"
    /\ Idle(t)
    /\ IF UsesPerLookUp(ty, annotation)
       THEN lookups < MaxLookUps /\ lookups' = lookups + 1
       ELSE UNCHANGED lookups
    /\ stack' = [stack EXCEPT ![t] =
                    getInstanceOfAnnotatedType(
                        [Frame("Invoke", "L132", ctx, ty, NoReg) EXCEPT
                            !.annotation = annotation,
                            !.optional = optional,
                            !.params = params],
                        ctx, ty, annotation, optional)]
    /\ UNCHANGED <<injectorVars, nregs, ctxs, registryVars, count, historyVars>>

\* Invoke(ctx, func(x T)) (injector.go:141-147: no annotation, not optional).
Invoke(t, ctx, ty) == InvokeWith(t, ctx, ty, "", FALSE, FALSE)

\* Invoke(ctx, func(p struct{ Params; X T `inject:"annotation[,optional]"` })).
InvokeParams(t, ctx, ty, annotation, optional) ==
    InvokeWith(t, ctx, ty, annotation, optional, TRUE)

\* injector.go:137, 96-105  the function is called with the resolved value and
\* Invoke returns nil, or Invoke returns the error.
Invoke_L137(t) ==
    /\ At(t, "Invoke", "L137")
    /\ stack' = Pop(t)
    /\ UNCHANGED <<injectorVars, nregs, ctxs, registryVars, lookups, count,
                   historyVars>>

\* injector.go:209-214  the loop over the bindings found for a collection: the
\* next one is resolved, or the collection is returned.
getInstanceOfAnnotatedType_L209(t) ==
    /\ At(t, "slice", "L209")
    /\ LET f == Top(t) IN
        stack' = [stack EXCEPT ![t] =
            IF f.todo # <<>>
            THEN SubSeq(@, 1, Len(@) - 1) \o
                 <<[f EXCEPT !.todo = Tail(@)],
                   Frame("resolve", "scope", f.ctx, Head(f.todo), NoReg)>>
            ELSE Append(SubSeq(@, 1, Len(@) - 2),
                        DeliverSlice(@[Len(@) - 1], f.coll, NoErr))]
    /\ UNCHANGED <<injectorVars, nregs, ctxs, registryVars, lookups, count,
                   historyVars>>

\* Variant of getInstanceOfAnnotatedType_L211 that returns the instances
\* collected before the failure, and no error.
getInstanceOfAnnotatedType_L211_Partial(t) ==
    /\ At(t, "slice", "L211")
    /\ stack' = [stack EXCEPT ![t] =
                    Append(SubSeq(@, 1, Len(@) - 2),
                           DeliverSlice(@[Len(@) - 1], Top(t).coll, NoErr))]
    /\ UNCHANGED <<injectorVars, nregs, ctxs, registryVars, lookups, count,
                   historyVars>>

\* injector.go:210-212  the resolution of a binding of the collection failed:
\* return reflect.Value{}, err
getInstanceOfAnnotatedType_L211(t) ==
    /\ At(t, "slice", "L211")
    /\ Return(t, Invalid, Top(t).err)
    /\ UNCHANGED <<injectorVars, nregs, ctxs, registryVars, lookups, count,
                   historyVars>>

\* Variant of createProviderValue whose function resolves T in the context of
\* the Invoke that made it.
createProviderValue_InjectionContext(t, ctx) ==
    /\ At(t, "Invoke", "L137")
    /\ Top(t).val = MadeFunc
    /\ Top(t).err = NoErr
    /\ IF UsesPerLookUp(Out(Top(t).b), Top(t).annotation)
       THEN lookups < MaxLookUps /\ lookups' = lookups + 1
       ELSE UNCHANGED lookups
    /\ LET f == Top(t) IN
        stack' = [stack EXCEPT ![t] =
            @ \o getInstanceOfAnnotatedType(
                    [Frame("Provider", "L259", ctx, Out(f.b), NoReg) EXCEPT
                        !.annotation = f.annotation,
                        !.optional = f.optional],
                    f.ctx, Out(f.b), f.annotation, f.optional)]
    /\ UNCHANGED <<injectorVars, nregs, ctxs, registryVars, count, historyVars>>

\* The function Invoke has called with a Provider[T] calls it with a context:
\* the function made by createProviderValue resolves T in that context, with
\* the annotation and the optional mark of the request (injector.go:251-260).
createProviderValue(t, ctx) ==
    /\ At(t, "Invoke", "L137")
    /\ Top(t).val = MadeFunc
    /\ Top(t).err = NoErr
    /\ IF UsesPerLookUp(Out(Top(t).b), Top(t).annotation)
       THEN lookups < MaxLookUps /\ lookups' = lookups + 1
       ELSE UNCHANGED lookups
    /\ LET f == Top(t) IN
        stack' = [stack EXCEPT ![t] =
            @ \o getInstanceOfAnnotatedType(
                    [Frame("Provider", "L259", ctx, Out(f.b), NoReg) EXCEPT
                        !.annotation = f.annotation,
                        !.optional = f.optional],
                    ctx, Out(f.b), f.annotation, f.optional)]
    /\ UNCHANGED <<injectorVars, nregs, ctxs, registryVars, count, historyVars>>

\* injector.go:273-276  the made function returns the instance and the error
createProviderValue_L273(t) ==
    /\ At(t, "Provider", "L273")
    /\ stack' = Pop(t)
    /\ UNCHANGED <<injectorVars, nregs, ctxs, registryVars, lookups, count,
                   historyVars>>

\* getScopedInstanceFromBinding up to the scope's ResolveBinding
\* (injector.go:297-301, 315-323; part_000:104-110, 134-140, 160-173).
getScopedInstanceFromBinding(t) ==
    /\ At(t, "resolve", "scope")
    /\ LET f     == Top(t)
           name  == Binding(f.b).scope
           scope == ScopeTable(name)
           reg   == ScopeRegistry(scope, f.ctx)
       IN  IF name \notin scopes
           THEN Return(t, Invalid,
                       Wrap("Got error while resolving type", f.b,
                            <<<<"unknown scope for binding", f.b>>>>))
           ELSE IF scope.kind = "perLookUp"
           THEN stack' = SetTop(t, [f EXCEPT !.pc = "args"])
           ELSE IF reg = NoReg
           THEN Return(t, Invalid, contextScopedNotActiveError)
           ELSE stack' = SetTop(t, [f EXCEPT !.reg = reg, !.pc = "L25"])
    /\ UNCHANGED <<injectorVars, nregs, ctxs, registryVars, lookups,
                   count, historyVars>>

\* ------------------------------------------- instanceRegistry.resolveBinding

\* Variant of HasLock that never finds the binding's lock.
HasLock_Unchecked(r, b) == FALSE

\* Variant of HasLock that finds no lock once the stored result is a failure's.
HasLock_UnlessFailed(r, b) == b \in instanceLock[r] /\ instances[r][b] # Nil

\* part_000:27  l, ok := r.instanceLock[binding]
HasLock(r, b) == b \in instanceLock[r]

\* Variant of WriteLocked for a registry with one lock for all its bindings.
WriteLocked_AnyBinding(r, b) ==
    \E t \in Threads : \E x \in Bindings : <<r, x, t>> \in wlocked

\* The binding's sync.RWMutex is held by a writer.
WriteLocked(r, b) == \E t \in Threads : <<r, b, t>> \in wlocked

\* Variant of CanRLock that does not wait.
CanRLock_Unguarded(r, b) == TRUE

\* sync.RWMutex: RLock waits for the writer.
CanRLock(r, b) == ~WriteLocked(r, b)

\* sync.RWMutex: Lock waits for the writer (and for the readers, of which a
\* lock has none between two steps, as resolveBinding_L32 shows).
CanLock(r, b) == ~WriteLocked(r, b)

\* part_000:25-33  r.mu.Lock(); the binding's lock l exists; r.mu.Unlock();
\* l.RLock(); instance, _ := r.instances.Load(binding); the deferred
\* l.RUnlock(); return instance.(Instance), nil.  The goroutine waits for mu and
\* for the writer of l; once it has l nothing it does is seen by, or waits for,
\* another goroutine, so the read section is one step once l is free.
resolveBinding_L32(t) ==
    /\ At(t, "resolve", "L25")
    /\ mu[Top(t).reg] = NoThread
    /\ HasLock(Top(t).reg, Top(t).b)
    /\ CanRLock(Top(t).reg, Top(t).b)
    /\ Return(t, instances[Top(t).reg][Top(t).b], NoErr)
    /\ UNCHANGED <<injectorVars, nregs, ctxs, registryVars, lookups, count,
                   historyVars>>

\* Variant of resolveBinding_L38 that leaves l.Lock() for after r.mu.Unlock().
resolveBinding_L38_LockAfterGuard(t) ==
    /\ At(t, "resolve", "L25")
    /\ mu[Top(t).reg] = NoThread
    /\ ~HasLock(Top(t).reg, Top(t).b)
    /\ mu' = [mu EXCEPT ![Top(t).reg] = t]
    /\ instanceLock' = [instanceLock EXCEPT ![Top(t).reg] = @ \cup {Top(t).b}]
    /\ stack' = SetTop(t, [Top(t) EXCEPT !.pc = "L39"])
    /\ UNCHANGED <<injectorVars, nregs, ctxs, wlocked, instances,
                   destroyMethodsLock, destroyMethods, lookups, count, historyVars>>

\* part_000:25-27, 36-38  r.mu.Lock(); no lock for the binding yet: it is
\* created and l.Lock() taken, r.mu still held
resolveBinding_L38(t) ==
    /\ At(t, "resolve", "L25")
    /\ mu[Top(t).reg] = NoThread
    /\ ~HasLock(Top(t).reg, Top(t).b)
    /\ CanLock(Top(t).reg, Top(t).b)
    /\ mu' = [mu EXCEPT ![Top(t).reg] = t]
    /\ instanceLock' = [instanceLock EXCEPT ![Top(t).reg] = @ \cup {Top(t).b}]
    /\ wlocked' = wlocked \cup {<<Top(t).reg, Top(t).b, t>>}
    /\ stack' = SetTop(t, [Top(t) EXCEPT !.pc = "L39"])
    /\ UNCHANGED <<injectorVars, nregs, ctxs, instances,
                   destroyMethodsLock, destroyMethods, lookups, count, historyVars>>

\* Variant of resolveBinding_L39 that enters instanceCreator() with r.mu held.
resolveBinding_L39_KeepsGuard(t) ==
    /\ At(t, "resolve", "L39")
    /\ ctorCalls' = [ctorCalls EXCEPT ![Top(t).reg][Top(t).b] = @ + 1]
    /\ stack' = SetTop(t, [Top(t) EXCEPT !.pc = "args"])
    /\ UNCHANGED <<injectorVars, nregs, ctxs, mu, instanceLock, wlocked,
                   instances, destroyMethodsLock, destroyMethods, lookups, count,
                   ctorErr, served, destroyed>>

\* part_000:39, 41  r.mu.Unlock(); instanceCreator() is entered
resolveBinding_L39(t) ==
    /\ At(t, "resolve", "L39")
    /\ mu' = [mu EXCEPT ![Top(t).reg] = NoThread]
    /\ ctorCalls' = [ctorCalls EXCEPT ![Top(t).reg][Top(t).b] = @ + 1]
    /\ stack' = SetTop(t, [Top(t) EXCEPT !.pc = "args"])
    /\ UNCHANGED <<injectorVars, nregs, ctxs, instanceLock, wlocked,
                   instances, destroyMethodsLock, destroyMethods, lookups, count,
                   ctorErr, served, destroyed>>

\* Variant of resolveBinding_L42 without the deferred l.Unlock().
resolveBinding_L42_KeepsLock(t) ==
    /\ At(t, "resolve", "L42")
    /\ LET f == Top(t) IN
        /\ instances' = [instances EXCEPT ![f.reg][f.b] = f.val]
        /\ ctorErr' = [ctorErr EXCEPT ![f.reg][f.b] = f.err]
        /\ Return(t, f.val, f.err)
    /\ UNCHANGED <<injectorVars, nregs, ctxs, mu, instanceLock, wlocked,
                   destroyMethodsLock, destroyMethods, lookups, count,
                   ctorCalls, served, destroyed>>

\* part_000:42-46  r.instances.Store(binding, instance); return instance, err;
\* the deferred l.Unlock()
resolveBinding_L42(t) ==
    /\ At(t, "resolve", "L42")
    /\ LET f == Top(t) IN
        /\ instances' = [instances EXCEPT ![f.reg][f.b] = f.val]
        /\ wlocked' = wlocked \ {<<f.reg, f.b, t>>}
        /\ ctorErr' = [ctorErr EXCEPT ![f.reg][f.b] = f.err]
        /\ Return(t, f.val, f.err)
    /\ UNCHANGED <<injectorVars, nregs, ctxs, mu, instanceLock,
                   destroyMethodsLock, destroyMethods, lookups, count,
                   ctorCalls, served, destroyed>>

\* ----------------------------------------------------- the instance creator

\* Variant of callFunctionWithArgumentInstance that carries the types being
\* resolved through the call chain and fails on a type it meets again.
callFunctionWithArgumentInstance_DetectsCycle(t) ==
    /\ At(t, "resolve", "args")
    /\ Top(t).argi <= Len(Binding(Top(t).b).deps)
    /\ Len(stack[t]) < MaxDepth
    /\ LET f  == Top(t)
           ty == Binding(f.b).deps[f.argi]
       IN  stack' = [stack EXCEPT ![t] =
               IF \E k \in 1..Len(@) : @[k].op = "resolve" /\ @[k].b = ty
               THEN SubSeq(@, 1, Len(@) - 1) \o
                    <<[f EXCEPT !.val = Nil,
                                !.err = Wrap("dependency cycle", ty, NoErr),
                                !.pc = "L304"]>>
               ELSE SubSeq(@, 1, Len(@) - 1) \o
                    getInstanceOfAnnotatedType(f, f.ctx, ty, "", FALSE)]
    /\ UNCHANGED <<injectorVars, nregs, ctxs, registryVars, lookups, count,
                   historyVars>>

\* callFunctionWithArgumentInstance (injector.go:131-135): the provider's next
\* argument is resolved through the injector, one call deeper.
callFunctionWithArgumentInstance(t) ==
    /\ At(t, "resolve", "args")
    /\ Top(t).argi <= Len(Binding(Top(t).b).deps)
    /\ Len(stack[t]) < MaxDepth
    /\ stack' = [stack EXCEPT ![t] =
                    SubSeq(@, 1, Len(@) - 1) \o
                    getInstanceOfAnnotatedType(Top(t), Top(t).ctx,
                                               Binding(Top(t).b).deps[Top(t).argi],
                                               "", FALSE)]
    /\ UNCHANGED <<injectorVars, nregs, ctxs, registryVars, lookups, count,
                   historyVars>>

\* Whether a provider call succeeds: a provider that returns no error cannot fail.
Outcomes(b) == IF Binding(b).fallible THEN {TRUE, FALSE} ELSE {TRUE}

\* binding.create (binding.go:19-36, injector.go:137): the provider is called
\* and returns a new value, or nil and its error.
create(t) ==
    /\ At(t, "resolve", "args")
    /\ Top(t).argi > Len(Binding(Top(t).b).deps)
    /\ LET f == Top(t) IN
        /\ count' = [count EXCEPT ![f.b] = @ + 1]
        /\ \E ok \in Outcomes(f.b) :
             stack' = SetTop(t,
                 IF ok
                 THEN [f EXCEPT !.val = <<f.b, count[f.b] + 1>>, !.pc = "L304"]
                 ELSE [f EXCEPT !.val = Nil,
                                !.err = Wrap("provider returned error", f.b,
                                             providerError(f.b)),
                                !.pc = "L304"])
    /\ UNCHANGED <<injectorVars, nregs, ctxs, registryVars, lookups, historyVars>>

\* The providers that may panic instead of returning.
MayPanic == {"request"}

\* binding.create (binding.go:19-20, injector.go:137): the provider called for
\* an Invoke panics and the caller of Invoke recovers.  The goroutine leaves
\* every call on its stack, running the deferred calls registered so far: none
\* in the writer branch of resolveBinding, whose defer l.Unlock() comes after
\* instanceCreator() (part_000:41-44), the Unlock of destroyMethodsLock in
\* shutdown (part_000:58).
create_Panics(t) ==
    /\ phase = "ready"
    /\ At(t, "resolve", "args")
    /\ Top(t).argi > Len(Binding(Top(t).b).deps)
    /\ Top(t).b \in MayPanic
    /\ count' = [count EXCEPT ![Top(t).b] = @ + 1]
    /\ stack' = [stack EXCEPT ![t] = <<>>]
    /\ destroyMethodsLock' =
          [r \in Regs |-> IF destroyMethodsLock[r] = t THEN NoThread
                          ELSE destroyMethodsLock[r]]
    /\ UNCHANGED <<injectorVars, nregs, ctxs, mu, instanceLock, wlocked,
                   instances, destroyMethods, lookups, historyVars>>

\* injector.go:304  creationError == nil && destroyMethod != nil && !val.IsZero()
HasDestroyCallback(f) ==
    f.err = NoErr /\ Binding(f.b).destroy /\ f.val # Nil

\* The rest of the instance creator (injector.go:303-310): the destroy callback
\* is registered with the scope (part_000:49-55, 112-117, 142-147, 175-182),
\* then the creator returns: to perLookUpScope.ResolveBinding's caller
\* (part_000:109), or to resolveBinding at part_000:42.
registerDestructionCallback(t) ==
    /\ At(t, "resolve", "L304")
    /\ LET f   == Top(t)
           reg == ScopeRegistry(ScopeTable(Binding(f.b).scope), f.ctx)
       IN  /\ IF HasDestroyCallback(f) /\ reg # NoReg
              THEN /\ destroyMethodsLock[reg] = NoThread
                   /\ destroyMethods' = [destroyMethods EXCEPT ![reg] = Append(@, f.val)]
              ELSE UNCHANGED destroyMethods
           /\ IF f.reg = NoReg
              THEN /\ Return(t, f.val, f.err)
                   /\ served' = Append(served, f.val)
              ELSE /\ stack' = SetTop(t, [f EXCEPT !.pc = "L42"])
                   /\ UNCHANGED served
    /\ UNCHANGED <<injectorVars, nregs, ctxs, mu, instanceLock,
                   wlocked, instances, destroyMethodsLock, lookups, count,
                   ctorCalls, ctorErr, destroyed>>

\* ------------------------------------------------------ contextual scopes

\* Variant of newInstanceRegistry that hands out the first registry again.
newInstanceRegistry_Reused == IF nregs = 0 THEN nregs + 1 ELSE nregs

\* part_000:68-73  a registry no context carries yet
newInstanceRegistry == nregs + 1

\* WithContextualScopeEnabled (part_000:190-192), a function of the package
\* that needs no injector: context.WithValue(ctx, key, newInstanceRegistry()).
WithContextualScopeEnabled(ctx, key) ==
    /\ newInstanceRegistry \in Regs
    /\ nregs' = nregs + 1
    /\ ctxs' = ctxs \cup {WithValue(ctx, key, newInstanceRegistry)}
    /\ UNCHANGED <<injectorVars, registryVars, stack, lookups, count, historyVars>>

\* Variant of ShutdownContextualScope that shuts down the registry the context
\* was given last, whatever its key.
ShutdownContextualScope_Newest(t, ctx, key) ==
    /\ phase = "ready"
    /\ Idle(t)
    /\ stack' = IF ctx.vals # <<>>
                THEN Push(t, Frame("shutdown", "L58", ctx, key, ctx.vals[Len(ctx.vals)][2]))
                ELSE stack
    /\ UNCHANGED <<injectorVars, nregs, ctxs, registryVars, lookups, count, historyVars>>

\* ShutdownContextualScope (part_000:194-199): the registry the context carries
\* under the key, if any, is shut down; the frame keeps the key in b.
ShutdownContextualScope(t, ctx, key) ==
    /\ phase = "ready"
    /\ Idle(t)
    /\ stack' = IF scopeHolder(ctx, key) # NoReg
                THEN Push(t, Frame("shutdown", "L58", ctx, key, scopeHolder(ctx, key)))
                ELSE stack
    /\ UNCHANGED <<injectorVars, nregs, ctxs, registryVars, lookups, count, historyVars>>

\* ------------------------------------------------ instanceRegistry.shutdown

\* part_000:58  r.destroyMethodsLock.Lock()
shutdown_L58(t) ==
    /\ At(t, "shutdown", "L58")
    /\ destroyMethodsLock[Top(t).reg] = NoThread
    /\ destroyMethodsLock' = [destroyMethodsLock EXCEPT ![Top(t).reg] = t]
    /\ stack' = SetTop(t, [Top(t) EXCEPT !.i = Len(destroyMethods[Top(t).reg]),
                                         !.pc = "L61"])
    /\ UNCHANGED <<injectorVars, nregs, ctxs, mu, instanceLock, wlocked,
                   instances, destroyMethods, lookups, count, historyVars>>

\* Variant of Callback that walks the callbacks from the first one.
Callback_Forward(r, i) == destroyMethods[r][Len(destroyMethods[r]) - i + 1]

\* part_000:62  r.destroyMethods[i], for the loop's i counted from 1
Callback(r, i) == destroyMethods[r][i]

\* part_000:61-63  the loop from the last callback down: r.destroyMethods[i](), i--;
\* the callback calls the destroy method with the value (injector.go:308),
\* and a destroy method that uses the injector calls Invoke in the scope's
\* context before it returns to the loop.
shutdown_L62(t) ==
    /\ At(t, "shutdown", "L61")
    /\ Top(t).i >= 1
    /\ LET f    == Top(t)
           v    == Callback(f.reg, f.i)
           next == [f EXCEPT !.i = @ - 1, !.log = Append(@, v)]
       IN  /\ destroyed' = [destroyed EXCEPT ![f.reg] = Append(@, v)]
           /\ stack' = [stack EXCEPT ![t] =
                 SubSeq(@, 1, Len(@) - 1) \o <<next>> \o
                 (IF DestroyAsks(v[1]) = ""
                  THEN <<>>
                  ELSE getInstanceOfAnnotatedType(
                           Frame("Invoke", "L132", f.ctx, DestroyAsks(v[1]), NoReg),
                           f.ctx, DestroyAsks(v[1]), "", FALSE))]
    /\ UNCHANGED <<injectorVars, nregs, ctxs, registryVars, lookups, count,
                   ctorCalls, ctorErr, served>>

\* Variant of shutdown_L65 that returns without emptying r.destroyMethods.
shutdown_L65_KeepsCallbacks(t) ==
    /\ At(t, "shutdown", "L61")
    /\ Top(t).i < 1
    /\ destroyMethodsLock' = [destroyMethodsLock EXCEPT ![Top(t).reg] = NoThread]
    /\ stack' = Pop(t)
    /\ UNCHANGED <<injectorVars, nregs, ctxs, mu, instanceLock, wlocked,
                   instances, destroyMethods, lookups, count, historyVars>>

\* part_000:65, 59  r.destroyMethods = []func(){}; the deferred Unlock; return
shutdown_L65(t) ==
    /\ At(t, "shutdown", "L61")
    /\ Top(t).i < 1
    /\ destroyMethods' = [destroyMethods EXCEPT ![Top(t).reg] = <<>>]
    /\ destroyMethodsLock' = [destroyMethodsLock EXCEPT ![Top(t).reg] = NoThread]
    /\ stack' = Pop(t)
    /\ UNCHANGED <<injectorVars, nregs, ctxs, mu, instanceLock, wlocked,
                   instances, lookups, count, historyVars>>

\* -------------------------------------------------------- Injector.Shutdown

\* Variant of Shutdown that shuts down any of the registries made so far.
Shutdown_AnyRegistry(t) ==
    /\ phase = "ready"
    /\ Idle(t)
    /\ \E r \in 0..nregs :
          stack' = [stack EXCEPT ![t] =
                      <<Frame("Shutdown", "L74", Background, "", SingletonRegistry),
                        Frame("shutdown", "L58", Background, "", r)>>]
    /\ UNCHANGED <<injectorVars, nregs, ctxs, registryVars, lookups, count, historyVars>>

\* injector.go:72-73  Shutdown calls singletonScope.Shutdown()
Shutdown(t) ==
    /\ phase = "ready"
    /\ Idle(t)
    /\ stack' = [stack EXCEPT ![t] =
                    <<Frame("Shutdown", "L74", Background, "", SingletonRegistry),
                      Frame("shutdown", "L58", Background, "", SingletonRegistry)>>]
    /\ UNCHANGED <<injectorVars, nregs, ctxs, registryVars, lookups, count, historyVars>>

\* Variant of Shutdown_L74 that leaves the binding table as it is.
Shutdown_L74_KeepsBindings(t) ==
    /\ At(t, "Shutdown", "L74")
    /\ stack' = SetTop(t, [Top(t) EXCEPT !.pc = "L75"])
    /\ UNCHANGED <<options, mod, bindings, scopes, phase, eagerTodo, nregs, ctxs, registryVars,
                   lookups, count, historyVars>>

\* injector.go:74  injector.bindings = make(...)
Shutdown_L74(t) ==
    /\ At(t, "Shutdown", "L74")
    /\ bindings' = <<>>
    /\ stack' = SetTop(t, [Top(t) EXCEPT !.pc = "L75"])
    /\ UNCHANGED <<options, mod, scopes, phase, eagerTodo, nregs, ctxs, registryVars, lookups,
                   count, historyVars>>

\* injector.go:75  injector.scopes = make(...)
Shutdown_L75(t) ==
    /\ At(t, "Shutdown", "L75")
    /\ scopes' = {}
    /\ stack' = Pop(t)
    /\ UNCHANGED <<options, mod, bindings, phase, eagerTodo, nregs, ctxs, registryVars, lookups,
                   count, historyVars>>

\* ------------------------------------------------------------------- Next

\* The contexts a caller passes to Invoke with a function of a b: one it
\* holds, or nil, for a type of a contextual scope; the background context for
\* the others, whose scopes do not look at it.
CallerCtxs(b) ==
    IF Binding(b).scope \in DOMAIN RegisteredScopes
    THEN ctxs \cup {NilCtx}
    ELSE {Background}

\* One goroutine builds the injector and then uses it: it enters and leaves
\* scopes, nested or not, asks for the singleton and the contextual types and
\* shuts the injector down.
Next ==
    \/ eagerlyCreateSingletons
    \/ NewInjector
    \/ \E b \in Requested : \E ctx \in CallerCtxs(b) : Invoke(Main, ctx, b)
    \/ \E t \in Threads : Invoke_L137(t)
    \/ \E t \in Threads : getScopedInstanceFromBinding(t)
    \/ \E t \in Threads : resolveBinding_L32(t)
    \/ \E t \in Threads : resolveBinding_L38(t)
    \/ \E t \in Threads : resolveBinding_L39(t)
    \/ \E t \in Threads : resolveBinding_L42(t)
    \/ \E t \in Threads : callFunctionWithArgumentInstance(t)
    \/ \E t \in Threads : create(t)
    \/ \E t \in Threads : registerDestructionCallback(t)
    \/ \E ctx \in ctxs, key \in Keys :
            nregs < MaxRegistries /\ phase = "ready" /\ WithContextualScopeEnabled(ctx, key)
    \/ \E ctx \in ctxs : \E key \in Keys : ShutdownContextualScope(Main, ctx, key)
    \/ \E t \in Threads : shutdown_L58(t)
    \/ \E t \in Threads : shutdown_L62(t)
    \/ \E t \in Threads : shutdown_L65(t)
    \/ Shutdown(Main)
    \/ \E t \in Threads : Shutdown_L74(t)
    \/ \E t \in Threads : Shutdown_L75(t)

Spec == Init /\ [][Next]_vars

\* The goroutines of a server: once the injector is built, every goroutine
\* enters request scopes, asks for the request-scoped type in any of the
\* contexts and leaves the scopes, all of them concurrently.
NextConcurrent ==
    \/ eagerlyCreateSingletons
    \/ NewInjector
    \/ \E t \in Threads : \E ctx \in CallerCtxs("request") : Invoke(t, ctx, "request")
    \/ \E t \in Threads : Invoke_L137(t)
    \/ \E t \in Threads : getScopedInstanceFromBinding(t)
    \/ \E t \in Threads : resolveBinding_L32(t)
    \/ \E t \in Threads : resolveBinding_L38(t)
    \/ \E t \in Threads : resolveBinding_L39(t)
    \/ \E t \in Threads : resolveBinding_L42(t)
    \/ \E t \in Threads : callFunctionWithArgumentInstance(t)
    \/ \E t \in Threads : create(t)
    \/ \E t \in Threads : registerDestructionCallback(t)
    \/ nregs < MaxRequests /\ phase = "ready" /\ WithContextualScopeEnabled(Background, "requestKey")
    \/ \E t \in Threads : \E ctx \in ctxs : ShutdownContextualScope(t, ctx, "requestKey")
    \/ \E t \in Threads : shutdown_L58(t)
    \/ \E t \in Threads : shutdown_L62(t)
    \/ \E t \in Threads : shutdown_L65(t)

SpecConcurrent == Init /\ [][NextConcurrent]_vars

\* Once the injector is built, every goroutine asks for the PerLookUp type,
\* all of them concurrently.
NextPerLookUp ==
    \/ eagerlyCreateSingletons
    \/ NewInjector
    \/ \E t \in Threads : \E ctx \in CallerCtxs("perLookUp") : Invoke(t, ctx, "perLookUp")
    \/ \E t \in Threads : Invoke_L137(t)
    \/ \E t \in Threads : getScopedInstanceFromBinding(t)
    \/ \E t \in Threads : resolveBinding_L32(t)
    \/ \E t \in Threads : resolveBinding_L38(t)
    \/ \E t \in Threads : resolveBinding_L39(t)
    \/ \E t \in Threads : resolveBinding_L42(t)
    \/ \E t \in Threads : callFunctionWithArgumentInstance(t)
    \/ \E t \in Threads : create(t)
    \/ \E t \in Threads : registerDestructionCallback(t)

SpecPerLookUp == Init /\ [][NextPerLookUp]_vars

\* One goroutine enters a session on the background context and request scopes
\* within the session, asks for the session- and the request-scoped type in any
\* of the contexts and leaves the scopes.
InSession(ctx) == scopeHolder(ctx, "sessionKey") # NoReg

NextNested ==
    \/ eagerlyCreateSingletons
    \/ NewInjector
    \/ \E b \in {"session", "request"} : \E ctx \in ctxs : Invoke(Main, ctx, b)
    \/ \E t \in Threads : Invoke_L137(t)
    \/ \E t \in Threads : getScopedInstanceFromBinding(t)
    \/ \E t \in Threads : resolveBinding_L32(t)
    \/ \E t \in Threads : resolveBinding_L38(t)
    \/ \E t \in Threads : resolveBinding_L39(t)
    \/ \E t \in Threads : resolveBinding_L42(t)
    \/ \E t \in Threads : callFunctionWithArgumentInstance(t)
    \/ \E t \in Threads : create(t)
    \/ \E t \in Threads : registerDestructionCallback(t)
    \/ (\A ctx \in ctxs : ~InSession(ctx))
            /\ phase = "ready" /\ WithContextualScopeEnabled(Background, "sessionKey")
    \/ \E ctx \in ctxs :
            /\ InSession(ctx)
            /\ nregs < 1 + MaxNested
            /\ phase = "ready" /\ WithContextualScopeEnabled(ctx, "requestKey")
    \/ \E ctx \in ctxs : \E key \in Keys : ShutdownContextualScope(Main, ctx, key)
    \/ \E t \in Threads : shutdown_L58(t)
    \/ \E t \in Threads : shutdown_L62(t)
    \/ \E t \in Threads : shutdown_L65(t)

SpecNested == Init /\ [][NextNested]_vars

\* The types the caller of SpecRequests asks Invoke for as a function's
\* argument: a type with one binding, with two, with none without annotation,
\* the collections of the last two, the context and a lazy provider.
RequestedTypes ==
    {"child", "shape", "color", "[]shape", "[]color",
     invocationContextReflectType, "Provider[child]"}

\* The tagged fields it asks for in a Params struct.
RequestedFields ==
    {[ty |-> "color",           annotation |-> "red",  optional |-> FALSE],
     [ty |-> "color",           annotation |-> "blue", optional |-> FALSE],
     [ty |-> "color",           annotation |-> "",     optional |-> TRUE],
     [ty |-> "shape",           annotation |-> "",     optional |-> TRUE],
     [ty |-> "[]color",         annotation |-> "",     optional |-> TRUE],
     [ty |-> "[]shape",         annotation |-> "",     optional |-> TRUE],
     [ty |-> "Provider[color]", annotation |-> "",     optional |-> TRUE],
     [ty |-> "Provider[color]", annotation |-> "",     optional |-> FALSE]}

\* One goroutine builds an injector with several bindings for a type and
\* annotated bindings, asks for single values, collections, optional fields,
\* the context and lazy providers, calls the providers, and shuts the injector
\* down.
NextRequests ==
    \/ eagerlyCreateSingletons
    \/ NewInjector
    \/ \E ty \in RequestedTypes : Invoke(Main, Background, ty)
    \/ \E f \in RequestedFields :
            InvokeParams(Main, Background, f.ty, f.annotation, f.optional)
    \/ \E t \in Threads : Invoke_L137(t)
    \/ \E t \in Threads : getInstanceOfAnnotatedType_L209(t)
    \/ \E t \in Threads : getInstanceOfAnnotatedType_L211(t)
    \/ \E t \in Threads : createProviderValue(t, Background)
    \/ \E t \in Threads : createProviderValue_L273(t)
    \/ \E t \in Threads : getScopedInstanceFromBinding(t)
    \/ \E t \in Threads : resolveBinding_L32(t)
    \/ \E t \in Threads : resolveBinding_L38(t)
    \/ \E t \in Threads : resolveBinding_L39(t)
    \/ \E t \in Threads : resolveBinding_L42(t)
    \/ \E t \in Threads : callFunctionWithArgumentInstance(t)
    \/ \E t \in Threads : create(t)
    \/ \E t \in Threads : registerDestructionCallback(t)
    \/ \E t \in Threads : shutdown_L58(t)
    \/ \E t \in Threads : shutdown_L62(t)
    \/ \E t \in Threads : shutdown_L65(t)
    \/ Shutdown(Main)
    \/ \E t \in Threads : Shutdown_L74(t)
    \/ \E t \in Threads : Shutdown_L75(t)

SpecRequests == InitRequests /\ [][NextRequests]_vars

\* The lazy providers the caller of SpecProviders asks Invoke for: of the
\* singleton child, of the PerLookUp type and of the request-scoped type.
RequestedProviders == {"Provider[child]", "Provider[perLookUp]", "Provider[request]"}

\* One goroutine enters request scopes on the background context, asks Invoke
\* for lazy providers in any of its contexts and calls them, with any of its
\* contexts, as often as it likes; it leaves the scopes and shuts the injector
\* down.
NextProviders ==
    \/ eagerlyCreateSingletons
    \/ NewInjector
    \/ \E ty \in RequestedProviders : \E ctx \in ctxs : Invoke(Main, ctx, ty)
    \/ \E t \in Threads : Invoke_L137(t)
    \/ \E t \in Threads : \E ctx \in ctxs : createProviderValue(t, ctx)
    \/ \E t \in Threads : createProviderValue_L273(t)
    \/ \E t \in Threads : getScopedInstanceFromBinding(t)
    \/ \E t \in Threads : resolveBinding_L32(t)
    \/ \E t \in Threads : resolveBinding_L38(t)
    \/ \E t \in Threads : resolveBinding_L39(t)
    \/ \E t \in Threads : resolveBinding_L42(t)
    \/ \E t \in Threads : callFunctionWithArgumentInstance(t)
    \/ \E t \in Threads : create(t)
    \/ \E t \in Threads : registerDestructionCallback(t)
    \/ nregs < MaxRequests /\ phase = "ready" /\ WithContextualScopeEnabled(Background, "requestKey")
    \/ \E ctx \in ctxs : ShutdownContextualScope(Main, ctx, "requestKey")
    \/ \E t \in Threads : shutdown_L58(t)
    \/ \E t \in Threads : shutdown_L62(t)
    \/ \E t \in Threads : shutdown_L65(t)
    \/ Shutdown(Main)
    \/ \E t \in Threads : Shutdown_L74(t)
    \/ \E t \in Threads : Shutdown_L75(t)

SpecProviders == Init /\ [][NextProviders]_vars

\* The goroutines of a server whose request scope has two bindings: once the
\* injector is built and a request scope entered, the goroutines other than
\* the builder ask for either type in the scope's context, concurrently.
NextIndependent ==
    \/ eagerlyCreateSingletons
    \/ NewInjector
    \/ \E t \in Threads \ {Main} : \E ctx \in ctxs \ {Background} :
            \E b \in {"request", "header"} : Invoke(t, ctx, b)
    \/ \E t \in Threads : Invoke_L137(t)
    \/ \E t \in Threads : getScopedInstanceFromBinding(t)
    \/ \E t \in Threads : resolveBinding_L32(t)
    \/ \E t \in Threads : resolveBinding_L38(t)
    \/ \E t \in Threads : resolveBinding_L39(t)
    \/ \E t \in Threads : resolveBinding_L42(t)
    \/ \E t \in Threads : callFunctionWithArgumentInstance(t)
    \/ \E t \in Threads : create(t)
    \/ \E t \in Threads : registerDestructionCallback(t)
    \/ nregs < MaxRequests /\ phase = "ready" /\ WithContextualScopeEnabled(Background, "requestKey")

\* The steps of a goroutine that are the injector's own code, and the calls of
\* the providers that return: every provider but the request type's, which
\* may take for ever.
Proceeds(t) ==
    \/ Invoke_L137(t)
    \/ getScopedInstanceFromBinding(t)
    \/ resolveBinding_L32(t)
    \/ resolveBinding_L38(t)
    \/ resolveBinding_L39(t)
    \/ resolveBinding_L42(t)
    \/ callFunctionWithArgumentInstance(t)
    \/ registerDestructionCallback(t)
    \/ (~Idle(t) /\ Top(t).b # "request" /\ create(t))

\* A goroutine that can go on does: the scheduler runs every runnable
\* goroutine, and a goroutine waiting for a mutex gets it once it stays free.
SpecIndependent ==
    /\ InitIndependent
    /\ [][NextIndependent]_vars
    /\ \A t \in Threads : WF_vars(Proceeds(t))

\* One goroutine calls NewInjector with modules and Provide options, some of
\* which fail to apply, and uses the injector it gets.
NextModules ==
    \/ NewInjector_L28
    \/ NewInjector_L30
    \/ NewInjector_L34
    \/ eagerlyCreateSingletons
    \/ NewInjector
    \/ \E ty \in {"child", "grandChild"} : Invoke(Main, Background, ty)
    \/ InvokeParams(Main, Background, "parent", "parent-in-sub", FALSE)
    \/ \E t \in Threads : Invoke_L137(t)
    \/ \E t \in Threads : getScopedInstanceFromBinding(t)
    \/ \E t \in Threads : resolveBinding_L32(t)
    \/ \E t \in Threads : resolveBinding_L38(t)
    \/ \E t \in Threads : resolveBinding_L39(t)
    \/ \E t \in Threads : resolveBinding_L42(t)
    \/ \E t \in Threads : callFunctionWithArgumentInstance(t)
    \/ \E t \in Threads : create(t)
    \/ \E t \in Threads : registerDestructionCallback(t)

SpecModules == InitModules /\ [][NextModules]_vars

\* The goroutines of a server that use one request scope and end it, at any
\* time and any number of times: once the injector is built and the scope
\* entered, the goroutines other than the builder ask for its types in its
\* context and shut it down.
NextTeardown ==
    \/ eagerlyCreateSingletons
    \/ NewInjector
    \/ nregs = 0 /\ phase = "ready" /\ WithContextualScopeEnabled(Background, "requestKey")
    \/ \E t \in Threads \ {Main} : \E ctx \in ctxs \ {Background} :
            \E b \in {"request", "handler", "closer"} : Invoke(t, ctx, b)
    \/ \E t \in Threads \ {Main} : \E ctx \in ctxs \ {Background} :
            ShutdownContextualScope(t, ctx, "requestKey")
    \/ \E t \in Threads : Invoke_L137(t)
    \/ \E t \in Threads : getScopedInstanceFromBinding(t)
    \/ \E t \in Threads : resolveBinding_L32(t)
    \/ \E t \in Threads : resolveBinding_L38(t)
    \/ \E t \in Threads : resolveBinding_L39(t)
    \/ \E t \in Threads : resolveBinding_L42(t)
    \/ \E t \in Threads : callFunctionWithArgumentInstance(t)
    \/ \E t \in Threads : create(t)
    \/ \E t \in Threads : registerDestructionCallback(t)
    \/ \E t \in Threads : shutdown_L58(t)
    \/ \E t \in Threads : shutdown_L62(t)
    \/ \E t \in Threads : shutdown_L65(t)

\* The steps of a goroutine once it has called Invoke or ShutdownContextualScope:
\* the injector's code, the providers and the destroy methods, all of which
\* return.
Runs(t) ==
    \/ Proceeds(t)
    \/ create(t)
    \/ shutdown_L58(t)
    \/ shutdown_L62(t)
    \/ shutdown_L65(t)

\* The goroutine takes a sync.Mutex: mu in resolveBinding (part_000:25), the
\* destroyMethodsLock in registerDestructionCallback and shutdown
\* (part_000:51, 57).
TakesMutex(t) ==
    \/ resolveBinding_L32(t)
    \/ resolveBinding_L38(t)
    \/ registerDestructionCallback(t)
    \/ shutdown_L58(t)

\* A goroutine that can go on does, and a goroutine that waits for a mutex
\* which is free again and again gets it: a sync.Mutex hands itself over to a
\* goroutine that has waited for long.
SpecTeardown ==
    /\ InitTeardown
    /\ [][NextTeardown]_vars
    /\ \A t \in Threads : WF_vars(Runs(t)) /\ SF_vars(TakesMutex(t))

\* A program that enters request scopes at any time, before NewInjector has
\* returned too, and asks for the request type in them once it has an
\* injector.
NextEager ==
    \/ eagerlyCreateSingletons
    \/ NewInjector
    \/ nregs < MaxRequests /\ WithContextualScopeEnabled(Background, "requestKey")
    \/ \E ctx \in ctxs : Invoke(Main, ctx, "request")
    \/ \E t \in Threads : Invoke_L137(t)
    \/ \E t \in Threads : getScopedInstanceFromBinding(t)
    \/ \E t \in Threads : resolveBinding_L32(t)
    \/ \E t \in Threads : resolveBinding_L38(t)
    \/ \E t \in Threads : resolveBinding_L39(t)
    \/ \E t \in Threads : resolveBinding_L42(t)
    \/ \E t \in Threads : callFunctionWithArgumentInstance(t)
    \/ \E t \in Threads : create(t)
    \/ \E t \in Threads : registerDestructionCallback(t)

SpecEager == InitEager /\ [][NextEager]_vars

\* The goroutines of a server whose callers recover from a panic: they ask for
\* the request type, whose provider may panic, in the contexts of request
\* scopes.
NextPanics ==
    \/ eagerlyCreateSingletons
    \/ NewInjector
    \/ nregs < MaxRequests /\ phase = "ready" /\ WithContextualScopeEnabled(Background, "requestKey")
    \/ \E t \in Threads : \E ctx \in ctxs \ {Background} : Invoke(t, ctx, "request")
    \/ \E t \in Threads : Invoke_L137(t)
    \/ \E t \in Threads : getScopedInstanceFromBinding(t)
    \/ \E t \in Threads : resolveBinding_L32(t)
    \/ \E t \in Threads : resolveBinding_L38(t)
    \/ \E t \in Threads : resolveBinding_L39(t)
    \/ \E t \in Threads : resolveBinding_L42(t)
    \/ \E t \in Threads : callFunctionWithArgumentInstance(t)
    \/ \E t \in Threads : create(t)
    \/ \E t \in Threads : create_Panics(t)
    \/ \E t \in Threads : registerDestructionCallback(t)

SpecPanics == Init /\ [][NextPanics]_vars

\* The goroutines of a program whose bindings depend on each other in a cycle:
\* one builds the injector, and once it has it the other goroutines ask for a
\* type of the cycle or for the injector itself.
NextCycles ==
    \/ eagerlyCreateSingletons
    \/ NewInjector
    \/ \E t \in Threads \ {Main} : \E ty \in mod \cup {"injector"} :
            Invoke(t, Background, ty)
    \/ \E t \in Threads : Invoke_L137(t)
    \/ \E t \in Threads : getScopedInstanceFromBinding(t)
    \/ \E t \in Threads : resolveBinding_L32(t)
    \/ \E t \in Threads : resolveBinding_L38(t)
    \/ \E t \in Threads : resolveBinding_L39(t)
    \/ \E t \in Threads : resolveBinding_L42(t)
    \/ \E t \in Threads : callFunctionWithArgumentInstance(t)
    \/ \E t \in Threads : create(t)
    \/ \E t \in Threads : registerDestructionCallback(t)

\* A goroutine that can go on does, the builder of the injector included.
SpecCycles ==
    /\ InitCycles
    /\ [][NextCycles]_vars
    /\ \A t \in Threads : WF_vars(Proceeds(t))
    /\ WF_vars(eagerlyCreateSingletons \/ NewInjector)

\* ------------------------------------------------------------ observations

Contextual(b) == Binding(b).scope \in DOMAIN RegisteredScopes

KeyOf(b) == RegisteredScopes[Binding(b).scope].key

\* The places of a context's chain that carry a registry under the key.
Entries(ctx, key) == {i \in 1..Len(ctx.vals) : ctx.vals[i][1] = key}

Entered(ctx, key) == ~ctx.isNil /\ Entries(ctx, key) # {}

\* The registry the newest such place carries.
HolderOf(ctx, key) ==
    IF Entered(ctx, key)
    THEN ctx.vals[CHOOSE i \in Entries(ctx, key) : \A j \in Entries(ctx, key) : j <= i][2]
    ELSE NoReg

\* Goroutine t is in Invoke and has what the resolution of its argument returned.
Returned(t) == At(t, "Invoke", "L137")

\* Goroutine t has what the resolution of a contextual type returned, in a
\* context that carries a registry for the type's scope: RegOf(t).
ReturnedFrom(t) ==
    /\ Returned(t)
    /\ Contextual(Top(t).b)
    /\ Entered(Top(t).ctx, KeyOf(Top(t).b))

RegOf(t) == HolderOf(Top(t).ctx, KeyOf(Top(t).b))

\* ------------------------------------------------------------------ claims

\* C1: in every registry a binding's constructor is invoked at most once,
\* however many goroutines resolve the binding for the first time together,
\* and all the goroutines that have the resolution's result have the same value.
C1_ConstructedOnce ==
    /\ \A r \in Regs, b \in Bindings : ctorCalls[r][b] <= 1
    /\ \A t1, t2 \in Threads :
          /\ ReturnedFrom(t1) /\ ReturnedFrom(t2)
          /\ Top(t1).b = Top(t2).b
          /\ RegOf(t1) = RegOf(t2)
          => Top(t1).val = Top(t2).val

\* Two goroutines have the one value made for a request registry, by one
\* constructor call, while a third one is still in resolveBinding for it.
C1_Witness ==
    \E t1, t2, t3 \in Threads :
        /\ t1 # t2 /\ t3 \notin {t1, t2}
        /\ ReturnedFrom(t1) /\ ReturnedFrom(t2)
        /\ RegOf(t1) = RegOf(t2)
        /\ ctorCalls[RegOf(t1)]["request"] = 1
        /\ Top(t1).val[1] = "request" /\ Top(t2).val = Top(t1).val
        /\ At(t3, "resolve", "L25") /\ Top(t3).reg = RegOf(t1)

\* C2: a goroutine that has the result of resolveBinding has it after the one
\* constructor call returned and its result was stored: the entry is there, it
\* is what the goroutine got, and nobody holds the binding's lock for writing.
C2_ReturnsAfterStore ==
    \A t \in Threads :
        ReturnedFrom(t)
            => /\ instances[RegOf(t)][Top(t).b] # Missing
               /\ Top(t).val = instances[RegOf(t)][Top(t).b]
               /\ ~WriteLocked(RegOf(t), Top(t).b)

\* Two goroutines have the first value of the request type, stored in the
\* registry, without an error: the one that made it and one that waited for it
\* or came later.
C2_Witness ==
    \E t1, t2 \in Threads :
        /\ t1 # t2
        /\ ReturnedFrom(t1) /\ ReturnedFrom(t2)
        /\ RegOf(t1) = RegOf(t2)
        /\ Top(t1).err = NoErr /\ Top(t2).err = NoErr
        /\ Top(t1).val = <<"request", 1>> /\ Top(t2).val = <<"request", 1>>
        /\ instances[RegOf(t1)]["request"] = <<"request", 1>>

\* C3: once a binding's constructor has returned a failure in a registry, no
\* step calls the constructor for that binding in that registry again.
C3_FailureNotRetried ==
    [][\A r \in Regs, b \in Bindings :
          ctorErr[r][b] # NoErr => ctorCalls'[r][b] = ctorCalls[r][b]]_vars

\* The constructor of the request type failed in a registry, and a goroutine
\* that resolved the type there afterwards has its result, without another call.
C3_Witness ==
    \E t \in Threads :
        /\ ReturnedFrom(t)
        /\ ctorErr[RegOf(t)]["request"] # NoErr
        /\ ctorCalls[RegOf(t)]["request"] = 1
        /\ count["request"] = 1
        /\ Top(t).val = Nil
        /\ Top(t).err = NoErr

\* C4: when a binding's constructor returned a failure in a registry, every
\* goroutine that has the result of resolving the binding there has that failure.
C4_SameFailure ==
    \A t \in Threads :
        ReturnedFrom(t) /\ ctorErr[RegOf(t)][Top(t).b] # NoErr
            => /\ Top(t).err # NoErr
               /\ Cause(Top(t).err) = Cause(ctorErr[RegOf(t)][Top(t).b])

\* Goroutines whose provider call for the PerLookUp type has returned to the
\* instance creator, which has not returned yet.
InCreator(b) == {t \in Threads : At(t, "resolve", "L304") /\ Top(t).b = b}

\* C5: every resolution of the PerLookUp type calls its provider: the provider
\* was called once for each resolution that returned and each one still in its
\* creator, no two resolutions returned the same value, and no registry keeps
\* a value or a failure of the type.
C5_PerLookUpFresh ==
    /\ count["perLookUp"] = Len(served) + Cardinality(InCreator("perLookUp"))
    /\ \A i, j \in 1..Len(served) :
          i # j /\ served[i] # Nil => served[i] # served[j]
    /\ \A r \in Regs : instances[r]["perLookUp"] = Missing
                       /\ ctorCalls[r]["perLookUp"] = 0

\* Three resolutions of the PerLookUp type returned: the provider failed for the
\* first one and made two different values for the next ones.
C5_Witness ==
    /\ Len(served) = 3
    /\ count["perLookUp"] = 3
    /\ served[1] = Nil
    /\ served[2] = <<"perLookUp", 2>>
    /\ served[3] = <<"perLookUp", 3>>

\* The registry an entered context carries for the scope it entered.
Newest(ctx) == ctx.vals[Len(ctx.vals)]

\* C6: the contexts made by WithContextualScopeEnabled carry a registry each,
\* the values two registries hold for a binding are different, and what a
\* resolution in a context returns without error is the value its registry holds.
C6_IndependentRegistries ==
    /\ \A c1, c2 \in ctxs \ {Background} :
          c1 # c2 => Newest(c1)[2] # Newest(c2)[2]
    /\ \A r1, r2 \in Regs, b \in Bindings :
          r1 # r2 /\ instances[r1][b] \notin {Missing, Nil, Invalid}
              => instances[r1][b] # instances[r2][b]
    /\ \A t \in Threads :
          ReturnedFrom(t) /\ Top(t).err = NoErr
              => Top(t).val = instances[RegOf(t)][Top(t).b]

\* Two request scopes were entered on the background context; the request type
\* was resolved in the first, then in the second, and the caller has resolved
\* it in the first again: it has the first value.
C6_Witness ==
    \E c1, c2 \in ctxs \ {Background} :
        /\ c1.vals = <<<<"requestKey", Newest(c1)[2]>>>>
        /\ c2.vals = <<<<"requestKey", Newest(c2)[2]>>>>
        /\ instances[Newest(c1)[2]]["request"] = <<"request", 1>>
        /\ instances[Newest(c2)[2]]["request"] = <<"request", 2>>
        /\ ctorCalls[Newest(c1)[2]]["request"] = 1
        /\ ReturnedFrom(Main)
        /\ Top(Main).b = "request"
        /\ Top(Main).ctx = c1
        /\ Top(Main).val = <<"request", 1>>

\* C7: in a request context entered within a session the session type resolves
\* in the session's registry: the resolution does not fail for want of an
\* active scope and returns the value that registry holds; two request contexts
\* of one session carry the session's registry and a request registry each, and
\* the values of the request type in these are different.
C7_OuterScopeDelegation ==
    /\ \A t \in Threads :
          Returned(t) /\ Top(t).b = "session" /\ Entered(Top(t).ctx, "sessionKey")
              => /\ ~IsScopeNotActive(Top(t).err)
                 /\ Top(t).err = NoErr
                        => Top(t).val =
                              instances[HolderOf(Top(t).ctx, "sessionKey")]["session"]
    /\ \A c1, c2 \in ctxs :
          /\ c1 # c2
          /\ Len(c1.vals) = 2 /\ Len(c2.vals) = 2
          /\ c1.vals[1] = c2.vals[1]
          => /\ scopeHolder(c1, "sessionKey") = c1.vals[1][2]
             /\ scopeHolder(c2, "sessionKey") = c1.vals[1][2]
             /\ scopeHolder(c1, "requestKey") # scopeHolder(c2, "requestKey")
             /\ instances[scopeHolder(c1, "requestKey")]["request"]
                    \notin {Missing, Nil}
                 => instances[scopeHolder(c1, "requestKey")]["request"]
                        # instances[scopeHolder(c2, "requestKey")]["request"]

\* Two request scopes were entered within one session; each registry made its
\* value of the request type, the session type was resolved, and the caller has
\* the session's value from a resolution in the second request context.
C7_Witness ==
    \E c1, c2 \in ctxs :
        /\ Len(c1.vals) = 2 /\ Len(c2.vals) = 2
        /\ c1.vals[1] = c2.vals[1]
        /\ c1.vals[1][1] = "sessionKey"
        /\ Newest(c1)[2] < Newest(c2)[2]
        /\ instances[Newest(c1)[2]]["request"][1] = "request"
        /\ instances[Newest(c2)[2]]["request"][1] = "request"
        /\ instances[c1.vals[1][2]]["session"] = <<"session", 1>>
        /\ Returned(Main)
        /\ Top(Main).b = "session"
        /\ Top(Main).ctx = c2
        /\ Top(Main).val = <<"session", 1>>

\* The callbacks of a sequence from place i on, the last one first.
Reversed(m, i) == [k \in 1..(Len(m) - i) |-> m[Len(m) - k + 1]]

\* C8: a shutdown that has i callbacks left to call has called the others, the
\* last registered first, each once.
C8_ReverseOrder ==
    \A t \in Threads :
        At(t, "shutdown", "L61")
            => Top(t).log = Reversed(destroyMethods[Top(t).reg], Top(t).i)

\* The shutdown of the singleton registry has called its three callbacks:
\* registered for the parent, the child built from it and the grandchild built
\* from the child, they were called for the grandchild, the child, the parent.
C8_Witness ==
    \E t \in Threads :
        /\ At(t, "shutdown", "L61")
        /\ Top(t).i = 0
        /\ destroyMethods[Top(t).reg] =
                <<<<"parent", 1>>, <<"child", 1>>, <<"grandChild", 1>>>>
        /\ Top(t).log = <<<<"grandChild", 1>>, <<"child", 1>>, <<"parent", 1>>>>

\* The provider of b was called for registry r: its value or failure is stored,
\* or the goroutine that called it is between the call and the store.
Created(r, b) ==
    \/ instances[r][b] # Missing
    \/ \E t \in Threads :
          /\ ~Idle(t)
          /\ Top(t).op = "resolve" /\ Top(t).b = b /\ Top(t).reg = r
          /\ Top(t).pc \in {"L304", "L42"}

\* C9: the resolution of a type of a contextual scope in a context that does
\* not carry the scope's key, the nil context included, returns the
\* scope-not-active error and no value; the provider was called only for
\* registries, and a registry holds the type only if a context carries it under
\* the scope's key.
C9_ScopeNotActive ==
    /\ \A t \in Threads :
          Returned(t) /\ Contextual(Top(t).b) /\ ~Entered(Top(t).ctx, KeyOf(Top(t).b))
              => /\ Top(t).err # NoErr
                 /\ Cause(Top(t).err) = Cause(contextScopedNotActiveError)
                 /\ Top(t).val = Invalid
    /\ \A b \in {"session", "request"} :
          /\ count[b] = Cardinality({r \in Regs : Created(r, b)})
          /\ \A r \in Regs :
                Created(r, b) => \E c \in ctxs \ {Background} :
                                    Newest(c) = <<KeyOf(b), r>>

\* A request scope is entered and nothing was made in it; one goroutine has
\* asked for the request type with the nil context, another with the
\* background context: both have the scope-not-active error.
C9_Witness ==
    \E t1, t2 \in Threads :
        /\ nregs = 1
        /\ count["request"] = 0
        /\ Returned(t1) /\ Top(t1).b = "request" /\ Top(t1).ctx = NilCtx
        /\ Returned(t2) /\ Top(t2).b = "request" /\ Top(t2).ctx = Background
        /\ IsScopeNotActive(Top(t1).err)
        /\ IsScopeNotActive(Top(t2).err)

\* C10: when the one caller has entered a scope, made a value in it and left
\* it, so that the value was destroyed, a resolution of the scope's type in the
\* same context returns the scope-not-active error.
C10_NotActiveAfterExit ==
    ReturnedFrom(Main) /\ destroyed[RegOf(Main)] # <<>>
        => IsScopeNotActive(Top(Main).err)

\* The values of a sequence.
Range(m) == {m[k] : k \in 1..Len(m)}

\* C11: over the shutdowns of a registry, each registered destroy callback is
\* called at most once: no value was destroyed twice, the callbacks a registry
\* holds between two shutdowns were not called yet, and a shutdown under way has
\* called none of the callbacks it has still to call; so a shutdown that follows
\* another without a registration in between finds no callback.
C11_ShutdownIdempotent ==
    \A r \in Regs :
        /\ \A i, j \in 1..Len(destroyed[r]) :
              i # j => destroyed[r][i] # destroyed[r][j]
        /\ destroyMethodsLock[r] = NoThread
              => Range(destroyMethods[r]) \cap Range(destroyed[r]) = {}
        /\ \A t \in Threads :
              At(t, "shutdown", "L61") /\ Top(t).reg = r
                  => \A k \in 1..Top(t).i :
                        destroyMethods[r][k] \notin Range(destroyed[r])

\* The singleton registry was shut down, its three callbacks called, and is shut
\* down again, as is a request registry whose one callback was called: the
\* second shutdown of each has the lock and finds no callback to call.
C11_Witness ==
    /\ Len(destroyed[SingletonRegistry]) = 3
    /\ \E r \in Regs \ {SingletonRegistry} :
          /\ destroyed[r] = <<<<"request", 1>>>>
          /\ destroyMethods[r] = <<>>
    /\ At(Main, "shutdown", "L61")
    /\ Top(Main).reg = SingletonRegistry
    /\ Top(Main).i = 0
    /\ Top(Main).log = <<>>
    /\ destroyMethods[SingletonRegistry] = <<>>

\* C12: when a shutdown of a registry returns, the registry holds no value and
\* no lock (the record that a binding was constructed) for any binding, and no
\* destroy callback.
C12_ShutdownClears ==
    [][\A t \in Threads :
          At(t, "shutdown", "L61") /\ Top(t).i < 1 /\ stack'[t] # stack[t]
              => /\ \A b \in Bindings : instances'[Top(t).reg][b] = Missing
                 /\ instanceLock'[Top(t).reg] = {}
                 /\ destroyMethods'[Top(t).reg] = <<>>]_vars

\* Goroutine t is in Injector.Shutdown.
InShutdown(t) == ~Idle(t) /\ stack[t][1].op = "Shutdown"

\* The singleton values that have a destroy callback registered for them.
SingletonValues ==
    {instances[SingletonRegistry][b] :
        b \in {x \in Bindings : /\ Binding(x).scope = Singleton
                                /\ Binding(x).destroy
                                /\ instances[SingletonRegistry][x] \notin {Missing, Nil}}}

\* C13: no step of Injector.Shutdown changes a contextual registry: its values,
\* its locks, its callbacks and the values destroyed for it stay as they are;
\* and when the shutdown of the singleton registry has returned to
\* Injector.Shutdown the callbacks of the singleton values have been called and
\* none is left.
C13_ShutdownSingletonOnly ==
    [][\A t \in Threads :
          InShutdown(t) /\ stack'[t] # stack[t]
              => /\ \A r \in Regs \ {SingletonRegistry} :
                      /\ instances'[r] = instances[r]
                      /\ instanceLock'[r] = instanceLock[r]
                      /\ destroyMethods'[r] = destroyMethods[r]
                      /\ destroyed'[r] = destroyed[r]
                 /\ At(t, "Shutdown", "L74")
                      => /\ SingletonValues \subseteq Range(destroyed[SingletonRegistry])
                         /\ destroyMethods[SingletonRegistry] = <<>>]_vars

\* Injector.Shutdown is about to return: the three singleton values were
\* destroyed, and the request registry still holds its value and the callback
\* registered for it, which was not called.
C13_Witness ==
    /\ At(Main, "Shutdown", "L75")
    /\ Len(destroyed[SingletonRegistry]) = 3
    /\ \E r \in Regs \ {SingletonRegistry} :
          /\ instances[r]["request"] = <<"request", 1>>
          /\ destroyMethods[r] = <<<<"request", 1>>>>
          /\ destroyed[r] = <<>>

\* ------------------------------------------------- observations of requests

\* Injector.Shutdown has returned: both tables were replaced by empty ones.
ShutDown == DOMAIN bindings = {} /\ scopes = {}

\* The bindings of the injector of SpecRequests that are registered for a type
\* and an annotation, as long as the injector has them.
Matching(ty, annotation) ==
    IF ShutDown THEN {}
    ELSE {b \in {RequestOptions[k] : k \in 1..Len(RequestOptions)} \cup {"injector"} :
             Binding(b).typeof = ty /\ Binding(b).annotatedWith = annotation}

\* A request that is answered from the binding table alone: not for the
\* context and not for a lazy provider.
Plain(f) == ~isProviderType(f.b) /\ f.b # invocationContextReflectType

\* A resolve or collection frame is on a goroutine's stack.
Resolving == \E t \in Threads : \E k \in 1..Len(stack[t]) :
                stack[t][k].op \in {"resolve", "slice"}

\* C14 as stated: once Injector.Shutdown has returned, every Invoke returns an
\* error.
C14_EveryInvokeFails ==
    Returned(Main) /\ ShutDown => Top(Main).err # NoErr

\* C14, amended: once Injector.Shutdown has replaced the scope table the
\* binding table is empty too; from then on no binding is resolved, so no
\* provider is called, and an Invoke returns: with the no-binding error when
\* it asks for a value that is not optional and neither the context nor a lazy
\* provider, and without error otherwise.
C14_FailsCleanly ==
    /\ scopes = {} => DOMAIN bindings = {}
    /\ ShutDown => ~Resolving
    /\ Returned(Main) /\ ShutDown
          => IF Plain(Top(Main)) /\ ~Top(Main).optional
             THEN /\ Top(Main).err # NoErr
                  /\ Cause(Top(Main).err)[1] \in
                        {"did not found binding, expected one",
                         "did not found binding, expected at least one"}
             ELSE Top(Main).err = NoErr

\* The injector made the child and was shut down, which destroyed the child;
\* an Invoke for the child's type has returned the no-binding error, and the
\* child's provider was called that one time only.
C14_Witness ==
    /\ ShutDown
    /\ Returned(Main)
    /\ Top(Main).b = "child"
    /\ Top(Main).err # NoErr
    /\ Cause(Top(Main).err)[1] = "did not found binding, expected one"
    /\ Top(Main).val = Invalid
    /\ count["child"] = 1
    /\ <<"child", 1>> \in Range(destroyed[SingletonRegistry])

\* C15 as stated: a request for a type that is no collection and has no binding
\* under the request's annotation returns the no-binding error when it is not
\* optional, and no error and no value when it is optional.
C15_NoBinding ==
    /\ Returned(Main)
    /\ ~IsSlice(Top(Main).b)
    /\ Matching(Top(Main).b, Top(Main).annotation) = {}
    => IF Top(Main).optional
       THEN Top(Main).err = NoErr /\ Top(Main).val = Invalid
       ELSE /\ Top(Main).err # NoErr
            /\ Cause(Top(Main).err)[1] = "did not found binding, expected one"

\* C15, amended: the same, for a type that is neither the context nor a lazy
\* provider; the optional request is a tagged field of a Params struct, which
\* is left unset.
C15_NoBindingPlain ==
    /\ Returned(Main)
    /\ ~IsSlice(Top(Main).b)
    /\ Plain(Top(Main))
    /\ Matching(Top(Main).b, Top(Main).annotation) = {}
    => IF Top(Main).optional
       THEN Top(Main).err = NoErr /\ Top(Main).val = Invalid
       ELSE /\ Top(Main).err # NoErr
            /\ Top(Main).val = Invalid
            /\ Cause(Top(Main).err)[1] = "did not found binding, expected one"

\* The injector has the two annotated bindings of the type color and none
\* without annotation; Invoke has resolved the optional field of that type
\* without annotation: no error, and the field is unset.
C15_Witness ==
    /\ ~ShutDown
    /\ Returned(Main)
    /\ Top(Main).b = "color"
    /\ Top(Main).annotation = ""
    /\ Top(Main).optional
    /\ Top(Main).params
    /\ Matching("color", "red") = {"red"}
    /\ Matching("color", "") = {}
    /\ Top(Main).err = NoErr
    /\ Top(Main).val = Invalid

\* C16: a request for a single value of a type and annotation that several
\* bindings are registered for returns the multiple-bindings error and no value,
\* optional or not; a request for the type color by the annotation of one of
\* its bindings returns, without error, the instance the singleton registry
\* holds for the binding registered under that annotation.
C16_AmbiguousOrQualified ==
    /\ /\ Returned(Main)
       /\ ~IsSlice(Top(Main).b)
       /\ Cardinality(Matching(Top(Main).b, Top(Main).annotation)) > 1
       => /\ Top(Main).err # NoErr
          /\ Cause(Top(Main).err)[1] = "found multiple bindings expected one"
          /\ Top(Main).val = Invalid
    /\ \A b \in {"red", "blue"} :
          /\ Returned(Main)
          /\ Top(Main).b = "color"
          /\ Top(Main).annotation = Binding(b).annotatedWith
          /\ ~ShutDown
          => /\ Top(Main).err = NoErr
             /\ Top(Main).val = <<b, 1>>
             /\ Top(Main).val = instances[SingletonRegistry][b]

\* The injector holds the instances of the rectangle, the red and the blue
\* binding; Invoke has asked for one shape, for which the rectangle and the
\* square binding are registered, and has the multiple-bindings error.
C16_Witness ==
    /\ ~ShutDown
    /\ Returned(Main)
    /\ Top(Main).b = "shape"
    /\ ~Top(Main).optional
    /\ Matching("shape", "") = {"rectangle", "square"}
    /\ instances[SingletonRegistry]["rectangle"] = <<"rectangle", 1>>
    /\ instances[SingletonRegistry]["red"] = <<"red", 1>>
    /\ instances[SingletonRegistry]["blue"] = <<"blue", 1>>
    /\ Top(Main).val = Invalid
    /\ Cause(Top(Main).err)[1] = "found multiple bindings expected one"

\* The bindings registered for a type and an annotation, in the order of the
\* options given to NewInjector.
Registered(ty, annotation) ==
    SelectSeq(RequestOptions, LAMBDA b : b \in Matching(ty, annotation))

\* C17: a collection request whose element type and annotation several
\* bindings are registered for returns one instance for each of them, made by
\* its provider, in the order in which the bindings were given to NewInjector.
C17_RegistrationOrder ==
    /\ Returned(Main)
    /\ IsSlice(Top(Main).b)
    /\ Matching(Elem(Top(Main).b), Top(Main).annotation) # {}
    /\ Top(Main).err = NoErr
    => LET given == Registered(Elem(Top(Main).b), Top(Main).annotation)
       IN  /\ Len(Top(Main).coll) = Len(given)
           /\ \A k \in 1..Len(given) : Top(Main).coll[k][1] = given[k]

\* C18: a collection request whose element type and annotation no binding is
\* registered for returns an empty collection and no error when it is
\* optional, and the no-binding error that expects at least one when it is
\* not; a collection request during which a matching binding's resolution
\* failed (the provider of the square returned its error) returns an error with
\* that failure as its cause, optional or not.
C18_CollectionErrors ==
    /\ /\ Returned(Main)
       /\ IsSlice(Top(Main).b)
       /\ Matching(Elem(Top(Main).b), Top(Main).annotation) = {}
       => IF Top(Main).optional
          THEN /\ Top(Main).err = NoErr
               /\ Top(Main).val = MadeSlice
               /\ Top(Main).coll = <<>>
          ELSE /\ Top(Main).err # NoErr
               /\ Cause(Top(Main).err)[1] =
                      "did not found binding, expected at least one"
    /\ /\ Returned(Main)
       /\ Top(Main).b = "[]shape"
       /\ ~ShutDown
       => IF served[Len(served)] = Nil
          THEN /\ Top(Main).err # NoErr
               /\ Cause(Top(Main).err) = Cause(providerError("square"))
          ELSE Top(Main).err = NoErr

\* Invoke has asked for the collection of shapes; the provider of the square
\* returned its error, and Invoke has an error with that error as its cause.
C18_Witness ==
    /\ ~ShutDown
    /\ Returned(Main)
    /\ Top(Main).b = "[]shape"
    /\ Matching("shape", "") = {"rectangle", "square"}
    /\ served # <<>>
    /\ served[Len(served)] = Nil
    /\ Top(Main).err # NoErr
    /\ Cause(Top(Main).err) = Cause(providerError("square"))

\* The Singleton-scoped bindings of the injector of SpecRequests, the binding
\* of *Injector included.
Singletons ==
    {b \in {RequestOptions[k] : k \in 1..Len(RequestOptions)} \cup {"injector"} :
        Binding(b).scope = Singleton}

\* C19: once NewInjector has returned the injector, the provider of every
\* Singleton-scoped binding has been called exactly once, through one call of
\* the singleton registry's instance creator, whatever the order in which the
\* eager creation visited the bindings; this stays so through every later
\* Invoke, every call of a lazy provider and the shutdown.
C19_EagerOnce ==
    phase = "ready"
        => \A b \in Singletons :
              /\ count[b] = 1
              /\ ctorCalls[SingletonRegistry][b] = 1
              /\ instances[SingletonRegistry][b] = <<b, 1>>

\* NewInjector returned the injector; Invoke was given a lazy provider of the
\* child, which the function has called: it returned the one child, made
\* eagerly from the one parent.
C19_Witness ==
    /\ phase = "ready"
    /\ At(Main, "Provider", "L273")
    /\ Top(Main).b = "child"
    /\ Top(Main).val = <<"child", 1>>
    /\ Top(Main).err = NoErr
    /\ \A b \in Singletons : count[b] = 1

\* A singleton's provider returned an error during the eager creation.
EagerFailure ==
    \E b \in Bindings : ctorErr[SingletonRegistry][b] # NoErr

\* C20: when a singleton's provider fails during the eager creation,
\* eagerlyCreateSingletons has an error to return whose cause is that
\* provider's own error, and NewInjector returns it and no injector: nothing
\* can be asked of one.  NewInjector returns the injector only when no
\* singleton's provider has failed.
C20_EagerFailureAborts ==
    /\ At(Main, "eagerlyCreateSingletons", "L115")
          => /\ Top(Main).err # NoErr
             /\ Top(Main).err[1][1] = "failed to get singleton instance"
             /\ \E b \in Bindings :
                   /\ Binding(b).scope = Singleton
                   /\ ctorErr[SingletonRegistry][b] # NoErr
                   /\ Cause(Top(Main).err) = Cause(providerError(b))
                   /\ Cause(Top(Main).err) = Cause(ctorErr[SingletonRegistry][b])
    /\ EagerFailure /\ phase = "eager" => ~Idle(Main)
    /\ phase = "ready" => ~EagerFailure
    /\ phase = "failed" => EagerFailure /\ \A t \in Threads : Idle(t)

\* The eager creation visited the grandchild first; its provider needs the
\* child, whose provider failed: eagerlyCreateSingletons returns the error of
\* the grandchild's resolution, which unwraps to the child provider's error.
C20_Witness ==
    /\ At(Main, "eagerlyCreateSingletons", "L115")
    /\ Len(Top(Main).err) = 5
    /\ Top(Main).err[2] = <<"failed to call provider function", "grandChild">>
    /\ Top(Main).err[4] = <<"provider returned error", "child">>
    /\ Cause(Top(Main).err) = Cause(providerError("child"))
    /\ count["child"] = 1

\* ---------------------------------------------- observations of NewInjector

\* The constructor a binding was made for (binding.provider): the two bindings
\* made by the Provide option of the module sub have the same one.
ProviderOf(b) == IF b = "parentInSub2" THEN "parentInSub" ELSE b

\* C21: once NewInjector has built the binding table, no list of the table
\* holds two bindings made by the same Provide option: a module that two
\* parent modules install has its Provide's binding in the table once.
C21_InstalledOnce ==
    phase \in {"eager", "ready"}
        => \A key \in DOMAIN bindings :
              \A i, j \in 1..Len(bindings[key]) :
                  i # j => ProviderOf(bindings[key][i]) # ProviderOf(bindings[key][j])

\* Whether an option cannot be applied: it is Provide(nil), or a module that
\* has such an option among its own.
RECURSIVE Faulty(_)
Faulty(o) ==
    IF o.kind = "Provide"
    THEN o.name = "nil"
    ELSE \E k \in 1..Len(o.options) : Faulty(o.options[k])

\* C29: when NewInjector applies an option that cannot be applied it has the
\* configuration error of that option to return, whatever it applied before;
\* it then returns it and no injector: no table was built, and no provider and
\* no instance creator was called, those of the bindings made by the options
\* applied before included.
C29_ConfigurationErrorAborts ==
    [][/\ (phase = "config" /\ options # <<>> /\ Faulty(Head(options)))
            => /\ At(Main, "NewInjector", "L30")'
               /\ Top(Main).err' # NoErr
               /\ Cause(Top(Main).err')[1] = "cannot accept nil provider"
       /\ At(Main, "NewInjector", "L30")
            => /\ phase' = "failed"
               /\ Idle(Main)'
               /\ bindings' = <<>>
               /\ scopes' = {}
               /\ \A b \in Bindings : count'[b] = 0
               /\ \A r \in Regs, b \in Bindings :
                     ctorCalls'[r][b] = 0 /\ instances'[r][b] = Missing]_vars

\* NewInjector has applied the Provide options of the parent and of the child,
\* the second one in a module, whose next option is Provide(nil): it has the
\* module's error around the nil provider's, and no provider was called.
C29_Witness ==
    /\ At(Main, "NewInjector", "L30")
    /\ mod = {"parent", "child"}
    /\ Top(Main).err = <<<<"error while installing module", "test.Module">>,
                         <<"cannot accept nil provider", "">>>>
    /\ \A b \in Bindings : count[b] = 0

\* ------------------------------------------- observations of lazy providers

\* Goroutine t has the result of a call of the lazy provider Invoke gave it.
Called(t) == At(t, "Provider", "L273")

\* The Invoke that made the provider goroutine t has called.
Injected(t) == stack[t][Len(stack[t]) - 1]

\* C22: a call of a lazy provider resolves its type at that call and in the
\* context of that call, whatever the context of the Invoke that made the
\* provider: for the singleton child every call returns the one child the
\* singleton registry holds; for the PerLookUp type every call calls the type's
\* provider, and a value it returns was returned by no earlier call; for the
\* request-scoped type a call returns what the registry of the call's context
\* holds, or the scope-not-active error when that context carries none.
C22_LazyProvider ==
    \A t \in Threads :
        Called(t) /\ ~ShutDown
            => LET f == Top(t) IN
               CASE f.b = "child" ->
                        /\ f.err = NoErr
                        /\ f.val = <<"child", 1>>
                        /\ f.val = instances[SingletonRegistry]["child"]
                 [] f.b = "perLookUp" ->
                        /\ count["perLookUp"] = Len(served)
                        /\ f.val = served[Len(served)]
                        /\ f.err = NoErr
                              => /\ f.val = <<"perLookUp", count["perLookUp"]>>
                                 /\ \A k \in 1..(Len(served) - 1) : served[k] # f.val
                 [] OTHER ->
                        IF Entered(f.ctx, "requestKey")
                        THEN /\ ~IsScopeNotActive(f.err)
                             /\ f.val = instances[HolderOf(f.ctx, "requestKey")]["request"]
                        ELSE /\ IsScopeNotActive(f.err)
                             /\ f.val = Nil

\* Invoke made a provider of the request-scoped type in the background
\* context, where no request scope is active; the function has called it with
\* the context of a request scope and has the value made in that scope.
C22_Witness ==
    /\ Called(Main)
    /\ Top(Main).b = "request"
    /\ Injected(Main).ctx = Background
    /\ Entered(Top(Main).ctx, "requestKey")
    /\ Top(Main).err = NoErr
    /\ Top(Main).val = <<"request", 1>>
    /\ instances[HolderOf(Top(Main).ctx, "requestKey")]["request"] = <<"request", 1>>

\* The values made for the PerLookUp type.
PerLookUpValues == {<<"perLookUp", n>> : n \in 1..MaxLookUps}

\* C24: no destroy callback is registered for a value of the PerLookUp type, in
\* no registry, and none is called: not by the resolution that made the value,
\* not by a shutdown of a request scope and not by Injector.Shutdown.
C24_PerLookUpNoDestroy ==
    \A r \in Regs :
        /\ Range(destroyMethods[r]) \cap PerLookUpValues = {}
        /\ Range(destroyed[r]) \cap PerLookUpValues = {}
        /\ \A t \in Threads :
              ~Idle(t) /\ Top(t).op = "shutdown"
                  => Range(Top(t).log) \cap PerLookUpValues = {}

\* Two values of the PerLookUp type were made, one of them in the context of a
\* request scope; the scope was left and the injector shut down, which called
\* the destroy callbacks of the request-scoped value and of the singletons.
C24_Witness ==
    /\ ShutDown
    /\ <<"perLookUp", 1>> \in Range(served)
    /\ <<"perLookUp", 2>> \in Range(served)
    /\ Len(destroyed[SingletonRegistry]) = 3
    /\ \E r \in Regs \ {SingletonRegistry} : destroyed[r] = <<<<"request", 1>>>>

\* C23: an Invoke whose argument's resolution failed has an error to return,
\* whose cause is that of the failure, and does not call its function: asked
\* for a type of a contextual scope, it has the scope-not-active error when
\* its context carries no registry of the scope, and the error of the type's
\* provider when that provider failed in the registry of its context, in this
\* resolution or in an earlier one.
C23_NothingSwallowed ==
    Returned(Main) /\ Contextual(Top(Main).b) /\ ~ShutDown
        => IF ~Entered(Top(Main).ctx, KeyOf(Top(Main).b))
           THEN IsScopeNotActive(Top(Main).err)
           ELSE ctorErr[RegOf(Main)][Top(Main).b] # NoErr
                    => /\ Top(Main).err # NoErr
                       /\ Cause(Top(Main).err) = Cause(providerError(Top(Main).b))

\* Goroutine t is in the shutdown ShutdownContextualScope called, and steps.
Exiting(t) ==
    /\ ~Idle(t)
    /\ Top(t).op = "shutdown"
    /\ Top(t).b \in Keys
    /\ stack'[t] # stack[t]

C26_TablesReadOnly ==
    [][phase = "ready" => bindings' = bindings /\ scopes' = scopes]_vars

\* Goroutine t is in an Invoke that asks for the type of binding b.
Asking(t, b) == ~Idle(t) /\ stack[t][1].op = "Invoke" /\ stack[t][1].b = b

\* C27: a goroutine that asks for the header in a request scope gets the
\* resolution's result, whatever the goroutines that ask for the request type
\* in the same scope do and however long the request type's provider takes,
\* for ever included: the header is resolved, and made if it was not yet,
\* while the construction of the request type is in flight in the same
\* registry.
C27_IndependentNotSerialized ==
    \A t \in Threads \ {Main} : Asking(t, "header") ~> Returned(t)

\* A goroutine is in the provider of the request type, for a registry that has
\* no value of the type yet, and another goroutine has the header that was
\* made in that registry meanwhile: the registry had no lock for the header
\* when the construction of the request type began.
C27_Witness ==
    \E t1, t2 \in Threads : \E r \in Regs \ {SingletonRegistry} :
        /\ At(t1, "resolve", "args")
        /\ Top(t1).b = "request" /\ Top(t1).reg = r
        /\ <<r, "request", t1>> \in wlocked
        /\ instances[r]["request"] = Missing
        /\ Returned(t2)
        /\ Top(t2).b = "header"
        /\ Top(t2).err = NoErr
        /\ Top(t2).val = <<"header", 1>>
        /\ instances[r]["header"] = <<"header", 1>>
        /\ ctorCalls[r]["header"] = 1

\* Goroutine t is in a provider: the provider's arguments are resolved and its
\* call has not returned.
InProvider(t) ==
    /\ At(t, "resolve", "args")
    /\ Top(t).argi > Len(Binding(Top(t).b).deps)

\* Goroutine t is in the construction of binding b for registry r.
Constructing(t, r, b) ==
    \E k \in 1..Len(stack[t]) :
        /\ stack[t][k].op = "resolve"
        /\ stack[t][k].b = b
        /\ stack[t][k].reg = r
        /\ stack[t][k].pc \in {"args", "L304", "L42"}

DirectDeps(S) ==
    {d \in mod : \E b \in S : \E i \in 1..Len(Binding(b).deps) :
        Binding(d).typeof = Binding(b).deps[i]}

RECURSIVE Closure(_, _)
Closure(S, n) == IF n = 0 THEN S ELSE Closure(S \cup DirectDeps(S), n - 1)

\* The bindings b depends on, directly or through other bindings.
DependsOn(b) == Closure(DirectDeps({b}), Cardinality(mod))

\* b transitively depends on itself; the bindings of its cycles.
OnCycle(b) == b \in mod /\ b \in DependsOn(b)

CycleOf(b) == {d \in DependsOn(b) : b \in DependsOn(d)}

\* The goroutine is resolving the binding: a call of getScopedInstanceFromBinding
\* for it is on its stack.
Resolves(t, b) ==
    \E k \in 1..Len(stack[t]) : stack[t][k].op = "resolve" /\ stack[t][k].b = b

\* The goroutine's stack is full.
Deep(t) == Len(stack[t]) >= MaxDepth

\* C28, as stated: a goroutine that resolves a binding that transitively
\* depends on itself goes on re-entering binding construction until its stack
\* is full, whatever the scopes of the bindings on the cycle.
C28_UnboundedRecursion ==
    \A t \in Threads :
        (\E b \in mod : OnCycle(b) /\ Resolves(t, b)) ~> Deep(t)

\* C28, amended: a goroutine that resolves a binding that transitively depends
\* on itself through bindings that are all PerLookUp goes on re-entering
\* binding construction until its stack is full.
C28_PerLookUpCycleRecurses ==
    \A t \in Threads :
        (\E b \in mod :
            /\ OnCycle(b)
            /\ \A d \in CycleOf(b) : Binding(d).scope = PerLookUp
            /\ Resolves(t, b)) ~> Deep(t)

\* A goroutine asked for ping and its stack is full of the calls that resolve
\* ping and pong in turn, each waiting for its provider's argument; no
\* provider has been called for either.
C28_Witness ==
    \E t \in Threads :
        /\ Len(stack[t]) = MaxDepth
        /\ stack[t][1].op = "Invoke" /\ stack[t][1].b = "ping"
        /\ \A k \in 2..MaxDepth :
            /\ stack[t][k].op = "resolve"
            /\ stack[t][k].b = (IF k % 2 = 0 THEN "ping" ELSE "pong")
            /\ stack[t][k].pc = "args"
        /\ count["ping"] = 0 /\ count["pong"] = 0

InResolveBinding(t) ==
    \E k \in 1..Len(stack[t]) :
        stack[t][k].op = "resolve" /\ stack[t][k].reg # NoReg

\* The goroutine is at the start of resolveBinding for a binding whose lock
\* another goroutine holds for writing: it will wait in l.RLock().
WaitsFor(t, x) ==
    /\ At(t, "resolve", "L25")
    /\ x # t
    /\ <<Top(t).reg, Top(t).b, x>> \in wlocked

\* The goroutine is at the start of resolveBinding for a binding whose
\* construction, by another goroutine, has returned.
Released(t) ==
    /\ At(t, "resolve", "L25")
    /\ Top(t).b \in instanceLock[Top(t).reg]
    /\ \A x \in Threads : <<Top(t).reg, Top(t).b, x>> \notin wlocked

\* A constructor that resolveBinding called (instanceCreator, part_000:41) has
\* not returned.
InInstanceCreator ==
    \E x \in Threads : \E k \in 1..Len(stack[x]) :
        /\ stack[x][k].op = "resolve"
        /\ stack[x][k].reg # NoReg
        /\ stack[x][k].pc \in {"args", "L304"}

\* C32: a goroutine that waits for a binding under construction stays where
\* it is for as long as the constructing goroutine holds the binding's lock,
\* and goes on once the construction has returned; if every constructor that
\* is called returns, every call of resolveBinding returns.
C32_WaitersReleased ==
    /\ [][\A t, x \in Threads :
            WaitsFor(t, x) /\ <<Top(t).reg, Top(t).b, x>> \in wlocked'
                => stack'[t] = stack[t]]_vars
    /\ \A t \in Threads : Released(t) ~> ~At(t, "resolve", "L25")
    /\ ([]<>~InInstanceCreator)
            => \A t \in Threads : InResolveBinding(t) ~> ~InResolveBinding(t)

\* A goroutine waits for the request type, which another goroutine is
\* constructing: that one is in the provider, which has not returned.
C32_Witness ==
    \E t, x \in Threads :
        /\ WaitsFor(t, x)
        /\ Top(t).b = "request"
        /\ InProvider(x) /\ Top(x).b = "request" /\ Top(x).reg = Top(t).reg

\* Binding a's provider takes the type of binding b, both with a destroy
\* method and kept by the same caching scope.
BuiltFrom(a, b) ==
    /\ a \in mod /\ b \in mod
    /\ \E i \in 1..Len(Binding(a).deps) : Binding(a).deps[i] = Binding(b).typeof
    /\ Binding(a).scope = Binding(b).scope
    /\ Binding(a).scope # PerLookUp
    /\ Binding(a).destroy /\ Binding(b).destroy

\* The places of a value in a sequence of values.
Places(seq, v) == {k \in 1..Len(seq) : seq[k] = v}

\* C33: in a registry, the callback of a binding's instance is registered
\* after the callback of the instance it was built from, and once the
\* instance it was built from has been destroyed the dependent instance has
\* been destroyed before it.
C33_DependentDestroyedFirst ==
    \A r \in Regs : \A a, b \in Bindings :
        BuiltFrom(a, b) /\ instances[r][a] \notin {Missing, Nil, Invalid}
            => LET va == instances[r][a]
                   vb == instances[r][b]
               IN  /\ \A i \in Places(destroyMethods[r], va) :
                       \A j \in Places(destroyMethods[r], vb) : j < i
                   /\ \A j \in Places(destroyed[r], vb) :
                       \E i \in Places(destroyed[r], va) : i < j

\* A shutdown of the registry has called a destroy method and none is running.
ShutdownHasRun(r) ==
    /\ destroyed[r] # <<>>
    /\ \A t \in Threads : \A k \in 1..Len(stack[t]) :
          ~(stack[t][k].op = "shutdown" /\ stack[t][k].reg = r)

\* C34: once a shutdown of a registry has run, every instance with a destroy
\* method that resolveBinding has returned from that registry has had its
\* destroy method called, and once only: also the instance whose construction
\* was in flight during the shutdown or ended after it.
C34_DestroyedExactlyOnce ==
    \A r \in Regs : \A b \in Bindings :
        LET v == instances[r][b] IN
            /\ Cardinality(Places(destroyed[r], v)) <= 1
            /\ (/\ ShutdownHasRun(r)
                /\ b \in mod /\ Binding(b).destroy
                /\ v \notin {Missing, Nil, Invalid})
                    => Places(destroyed[r], v) # {}

\* The goroutine is in instanceRegistry.shutdown.
InRegistryShutdown(t) ==
    \E k \in 1..Len(stack[t]) : stack[t][k].op = "shutdown"

\* C35: every shutdown of a registry returns, the providers and the destroy
\* methods returning: also the shutdown whose destroy method asks the injector
\* for a binding of the same registry that has a destroy method and has not
\* been constructed.
C35_ShutdownTerminates ==
    \A t \in Threads : InRegistryShutdown(t) ~> ~InRegistryShutdown(t)

\* C36: a binding's lock is held for writing only by a goroutine that is in
\* the call of resolveBinding that took it: a goroutine whose provider panicked
\* holds none, and the later resolvers of the binding do not wait for it.
C36_PanicReleasesLock ==
    \A l \in wlocked :
        \E k \in 1..Len(stack[l[3]]) :
            /\ stack[l[3]][k].op = "resolve"
            /\ stack[l[3]][k].reg = l[1]
            /\ stack[l[3]][k].b = l[2]
            /\ stack[l[3]][k].pc \in {"L39", "args", "L304", "L42"}

\* The instances with a destroy method that the singleton registry holds.
DestructibleSingletons ==
    {instances[SingletonRegistry][b] : b \in {x \in mod : Binding(x).destroy}}
        \ {Missing, Nil, Invalid}

\* C37: when a singleton's provider has failed in the eager creation, no
\* destroy method is called, before or after NewInjector returns the error:
\* the callbacks of the singletons constructed until then stay registered in
\* the singleton registry, which nothing shuts down.
C37_EagerFailureLeaks ==
    EagerFailure
        => /\ destroyed[SingletonRegistry] = <<>>
           /\ \A t \in Threads : ~InRegistryShutdown(t)
           /\ phase = "failed"
                => /\ DestructibleSingletons # {} =>
                        Range(destroyMethods[SingletonRegistry]) = DestructibleSingletons
                   /\ \A t \in Threads : Idle(t)

\* NewInjector has returned the error of the child's provider; the parent,
\* constructed for the child, is in the singleton registry with its callback
\* registered, and its destroy method has not been called.
C37_Witness ==
    /\ phase = "failed"
    /\ ctorErr[SingletonRegistry]["child"] # NoErr
    /\ instances[SingletonRegistry]["parent"] = <<"parent", 1>>
    /\ destroyMethods[SingletonRegistry] = <<<<"parent", 1>>>>
    /\ destroyed[SingletonRegistry] = <<>>

\* The binding is a singleton whose provider takes the type of a binding of a
\* contextual scope.
NeedsContextual(b) ==
    /\ b \in mod
    /\ Binding(b).scope = Singleton
    /\ \E i \in 1..Len(Binding(b).deps) : \E d \in mod :
          Binding(d).typeof = Binding(b).deps[i] /\ Contextual(d)

\* C38: with a singleton whose provider takes a type of a contextual scope
\* among its bindings, NewInjector returns no injector, whatever scopes were
\* entered: the resolution of that type for the singleton is given no
\* context, the singleton's provider is never called, no instance is made in
\* a contextual registry, and the error eagerlyCreateSingletons returns is
\* that the scope is not active.
C38_EagerNeedsNoContext ==
    (\E b \in mod : NeedsContextual(b))
        => /\ phase # "ready"
           /\ \A b \in mod : NeedsContextual(b) => count[b] = 0
           /\ \A d \in mod : Contextual(d) => count[d] = 0
           /\ \A k \in 1..Len(stack[Main]) :
                 stack[Main][k].op = "resolve" => stack[Main][k].ctx = NilCtx
           /\ At(Main, "eagerlyCreateSingletons", "L115")
                => /\ Top(Main).err # NoErr
                   /\ Cause(Top(Main).err)[1] = "Scope is not active"

\* A request scope has been entered and the parent constructed when the eager
\* creation comes to the gateway: it returns the error of the gateway's
\* resolution, which unwraps to the scope not being active.
C38_Witness ==
    /\ At(Main, "eagerlyCreateSingletons", "L115")
    /\ nregs > 0
    /\ mod = {"parent", "request", "gateway"}
    /\ instances[SingletonRegistry]["parent"] = <<"parent", 1>>
    /\ Top(Main).err[1] = <<"failed to get singleton instance", "">>
    /\ Cause(Top(Main).err)[1] = "Scope is not active"
    /\ count["gateway"] = 0

====
